---- MODULE Spec2Model ----
(***************************************************************************)
(* State-machine model of amaxa's dependency-aware extraction and load     *)
(* engine (src/amaxa/amaxa.py).                                            *)
(*                                                                         *)
(* Values.  Every Python value that can sit in a record cell is a tuple:   *)
(*   None                      <<"None">>                                  *)
(*   ''   (blank CSV cell)     <<"">>                                      *)
(*   other text                <<"Acme">>                                  *)
(*   an Id string              <<prefix, k, n>>  with n = 15 or 18, the    *)
(*                             number of characters of the encoding        *)
(*   a SalesforceId object     <<prefix, k>>     (its 18-character .id)    *)
(* A Python dict is a function from its keys; a Python set is a set.       *)
(***************************************************************************)
EXTENDS Integers, Sequences, FiniteSets, TLC

VARIABLES
    steps,          \* Operation.steps: the step configurations, in declared order
    mappers,        \* LoadOperation.mappers / ExtractOperation.mappers
    input_files,    \* LoadOperation.input_files: sobjectname -> sequence of records
    global_id_map,  \* LoadOperation.global_id_map: SalesforceId -> SalesforceId
    register_calls, \* the calls of register_new_id, in order: <<old_id, new_id>>
    bulk_inserts,   \* per sobjectname, the batches the store received through insert()
    bulk_updates,   \* per sobjectname, the batches the store received through update()
    next_id,        \* the store's counter of created records
    store,          \* the org queried by an extraction: sobjectname -> (SalesforceId -> record)
    required_ids,   \* ExtractOperation.required_ids
    extracted_ids,  \* ExtractOperation.extracted_ids
    output_files,   \* ExtractOperation.output_files: per sobjectname, the rows written
    queries,        \* the queries the connection received, in order
    before_count,   \* the local before_count of ExtractionStep.execute
    calls,          \* the step methods the operation has called, in order
    pc,             \* the position inside Operation.execute(): [at, i]
    error           \* the exception that ended execute(), "none" while there is none

vars == <<steps, mappers, input_files, global_id_map, register_calls, bulk_inserts,
          bulk_updates, next_id, store, required_ids, extracted_ids, output_files,
          queries, before_count, calls, pc, error>>

loadvars == <<input_files, global_id_map, register_calls, bulk_inserts, bulk_updates,
              next_id>>

extractvars == <<store, required_ids, extracted_ids, output_files, queries,
                 before_count>>

(***************************************************************************)
(* Bounds of the model.                                                    *)
(***************************************************************************)
NumOldIds == 2     \* original Account identifiers that input files draw from
MaxRecords == 2    \* records per input file

(***************************************************************************)
(* Python values.                                                          *)
(***************************************************************************)
None == <<"None">>
Blank == <<"">>
SomeName == <<"Acme">>

IsIdString(v) == Len(v) = 3
Id15(p, k) == <<p, k, 15>>
Id18(p, k) == <<p, k, 18>>

Range(seq) == {seq[j] : j \in 1..Len(seq)}
SeqsUpTo(S, n) == UNION {[1..m -> S] : m \in 0..n}
EmptyDict == <<>>

\* class ExtractionScope
ALL_RECORDS == "all"
QUERY == "query"
SELECTED_RECORDS == "some"
DESCENDENTS == "children"

\* class SelfLookupBehavior
TRACE_ALL == "trace-all"
TRACE_NONE == "trace-none"

\* class OutsideLookupBehavior
DROP_FIELD == "drop-field"
INCLUDE == "include"
RECURSE == "recurse"
ERROR == "error"
OutsideLookupBehaviors == {DROP_FIELD, INCLUDE, RECURSE, ERROR}

(***************************************************************************)
(* SalesforceId.  Both encodings of an identifier give the same object:    *)
(* the 15-character form gets its 3-character suffix appended, the         *)
(* 18-character form is kept.  None has no len() (TypeError); a string of  *)
(* another length is rejected (ValueError).                                *)
(***************************************************************************)
SalesforceIdRaises(idstr) ==
    IF idstr = None THEN "TypeError"
    ELSE IF IsIdString(idstr) /\ idstr[3] \in {15, 18} THEN "none"
    ELSE "ValueError"

SalesforceId(idstr) == <<idstr[1], idstr[2]>>

\* SalesforceId.__str__
Str(id) == <<id[1], id[2], 18>>

(***************************************************************************)
(* The schema catalog: what describe() returns for each sObject, and the   *)
(* key prefixes of the global describe.                                    *)
(***************************************************************************)
FieldMap ==
    [Account |->
        [Id |-> [type |-> "id", soapType |-> "tns:ID", referenceTo |-> <<>>],
         Name |-> [type |-> "string", soapType |-> "xsd:string", referenceTo |-> <<>>],
         ParentId |-> [type |-> "reference", soapType |-> "tns:ID",
                       referenceTo |-> <<"Account">>]],
     Opportunity |->
        [Id |-> [type |-> "id", soapType |-> "tns:ID", referenceTo |-> <<>>],
         AccountId |-> [type |-> "reference", soapType |-> "tns:ID",
                        referenceTo |-> <<"Account">>]],
     Task |->
        [Id |-> [type |-> "id", soapType |-> "tns:ID", referenceTo |-> <<>>],
         WhatId |-> [type |-> "reference", soapType |-> "tns:ID",
                     referenceTo |-> <<"Account", "Opportunity">>]]]

SObjects == DOMAIN FieldMap

KeyPrefix == [Account |-> "001", Opportunity |-> "006", Task |-> "00T"]

\* Operation.get_field_map
get_field_map(sobjectname) == FieldMap[sobjectname]

\* Operation.get_sobject_list
get_sobject_list(ss) == [j \in 1..Len(ss) |-> ss[j].sobjectname]

\* Operation.get_sobject_name_for_id: key_prefix_map[id[:3]]
get_sobject_name_for_id(id) == CHOOSE name \in SObjects : KeyPrefix[name] = id[1]

\* list.index and the `in` test on a list
Index(list, x) ==
    CHOOSE j \in 1..Len(list) : list[j] = x /\ \A h \in 1..(j - 1) : list[h] /= x
InList(list, x) == \E j \in 1..Len(list) : list[j] = x

\* the step of an sObject of the operation
StepOf(sobjectname) == steps[Index(get_sobject_list(steps), sobjectname)]

(***************************************************************************)
(* Step.scan_fields.                                                       *)
(***************************************************************************)
all_lookups(sobjectname, field_scope, sobjects) ==
    {f \in field_scope :
        /\ get_field_map(sobjectname)[f].type = "reference"
        /\ \E s \in Range(get_field_map(sobjectname)[f].referenceTo) : InList(sobjects, s)}

self_lookups(sobjectname, field_scope, sobjects) ==
    {f \in all_lookups(sobjectname, field_scope, sobjects) :
        sobjectname \in Range(get_field_map(sobjectname)[f].referenceTo)}

\* a filter over every field of the describe instead of the scanned lookups
descendent_lookups_unscoped(sobjectname, field_scope, sobjects) ==
    {f \in DOMAIN get_field_map(sobjectname) :
        \E refTo \in Range(get_field_map(sobjectname)[f].referenceTo) :
            /\ InList(sobjects, refTo)
            /\ Index(sobjects, refTo) < Index(sobjects, sobjectname)}

descendent_lookups(sobjectname, field_scope, sobjects) ==
    {f \in all_lookups(sobjectname, field_scope, sobjects) :
        \E refTo \in Range(get_field_map(sobjectname)[f].referenceTo) :
            /\ InList(sobjects, refTo)
            /\ Index(sobjects, refTo) < Index(sobjects, sobjectname)}

\* a filter that takes the step's own position for a later one
dependent_lookups_not_before(sobjectname, field_scope, sobjects) ==
    {f \in all_lookups(sobjectname, field_scope, sobjects) :
        \E refTo \in Range(get_field_map(sobjectname)[f].referenceTo) :
            /\ InList(sobjects, refTo)
            /\ Index(sobjects, refTo) >= Index(sobjects, sobjectname)}

dependent_lookups(sobjectname, field_scope, sobjects) ==
    {f \in all_lookups(sobjectname, field_scope, sobjects) :
        \E refTo \in Range(get_field_map(sobjectname)[f].referenceTo) :
            /\ InList(sobjects, refTo)
            /\ Index(sobjects, refTo) > Index(sobjects, sobjectname)}

(***************************************************************************)
(* DataMapper.                                                             *)
(***************************************************************************)
\* DataMapper.transform_key
transform_key(mapper, k) ==
    IF k \in DOMAIN mapper.field_name_mapping THEN mapper.field_name_mapping[k] ELSE k

\* DataMapper.transform_record, with no value transforms configured
\* (field_transforms.get(k, []) is empty, so reduce() returns the value)
mapper_transform_record(mapper, record) ==
    LET keys == {transform_key(mapper, k) : k \in DOMAIN record}
    IN  [k2 \in keys |->
            record[CHOOSE k \in DOMAIN record : transform_key(mapper, k) = k2]]

(***************************************************************************)
(* LoadOperation and LoadStep.                                             *)
(*                                                                         *)
(* A load step is [sobjectname, field_scope, outside_lookup_behavior,      *)
(* lookup_behaviors].  An operator that models a method that can raise     *)
(* returns a record whose field `raised` names the exception ("none" when  *)
(* the method returns).                                                    *)
(***************************************************************************)
\* LoadOperation.get_new_id
get_new_id(id_map, old_id) ==
    IF old_id \in DOMAIN id_map THEN id_map[old_id] ELSE None

\* LoadOperation.register_new_id: self.global_id_map[old_id] = new_id
register_new_id(id_map, old_id, new_id) ==
    [k \in DOMAIN id_map \cup {old_id} |-> IF k = old_id THEN new_id ELSE id_map[k]]

\* a step that knows no behavior but the one it was constructed with
get_lookup_behavior_for_field_default(step, field) == step.outside_lookup_behavior

\* LoadStep.get_lookup_behavior_for_field
get_lookup_behavior_for_field(step, field) ==
    IF field \in DOMAIN step.lookup_behaviors
    THEN step.lookup_behaviors[field]
    ELSE step.outside_lookup_behavior

\* LoadStep.get_value_for_lookup.  SalesforceId(value) is built first and
\* raises on None and on a blank value; a behavior that matches none of the
\* three branches (recurse) falls off the end of the function: None.
get_value_for_lookup(step, id_map, lookup, value) ==
    LET b == get_lookup_behavior_for_field(step, lookup)
    IN  IF SalesforceIdRaises(value) /= "none"
        THEN [raised |-> SalesforceIdRaises(value), value |-> None]
        ELSE LET mapped_id == get_new_id(id_map, SalesforceId(value))
             IN  IF mapped_id /= None
                 THEN [raised |-> "none", value |-> Str(mapped_id)]
                 ELSE IF b = INCLUDE
                 THEN [raised |-> "none", value |-> value]
                 ELSE IF b = ERROR
                 THEN [raised |-> "Exception: outside reference", value |-> None]
                 ELSE IF b = DROP_FIELD
                 THEN [raised |-> "none", value |-> Blank]
                 ELSE [raised |-> "none", value |-> None]

\* LoadStep.populate_lookups: the dict comprehension over the record's keys
populate_lookups(step, id_map, record, lookups) ==
    LET got(k) == get_value_for_lookup(step, id_map, k, record[k])
        raising == {k \in DOMAIN record \cap lookups : got(k).raised /= "none"}
    IN  IF raising /= {}
        THEN [raised |-> got(CHOOSE k \in raising : TRUE).raised, record |-> record]
        ELSE [raised |-> "none",
              record |-> [k \in DOMAIN record |->
                            IF k \notin lookups THEN record[k] ELSE got(k).value]]

\* LoadStep.primitivize.convert_value, for the soap types of the schema above
convert_value(value, field_type) ==
    IF value = None \/ value = Blank THEN None
    ELSE IF field_type = "tns:ID" THEN value
    ELSE IF field_type \in {"xsd:string", "xsd:date", "xsd:dateTime", "xsd:int", "xsd:double"}
    THEN value
    ELSE None

\* LoadStep.primitivize
primitivize(sobjectname, record) ==
    [k \in DOMAIN record |->
        convert_value(record[k], get_field_map(sobjectname)[k].soapType)]

\* LoadStep.transform_record
transform_record(ms, sobjectname, record) ==
    IF sobjectname \in DOMAIN ms
    THEN mapper_transform_record(ms[sobjectname], record)
    ELSE record

\* The body of the for loop of LoadStep.execute: one record of the reader
\* becomes one record to load.
record_to_load(step, sobjects, ms, id_map, record) ==
    LET populated ==
            populate_lookups(step, id_map,
                transform_record(ms, step.sobjectname, record),
                descendent_lookups(step.sobjectname, step.field_scope, sobjects))
    IN  IF populated.raised /= "none"
        THEN populated
        ELSE [raised |-> "none",
              record |-> primitivize(step.sobjectname, populated.record)]

\* What the store answers to insert(records): one result per record, in the
\* order of the input; success[j] says whether the store accepted record j,
\* and an accepted record gets the next fresh identifier.
insert_results(sobjectname, success, created) ==
    [j \in DOMAIN success |->
        IF success[j]
        THEN [success |-> TRUE,
              id |-> Id18(KeyPrefix[sobjectname],
                          NumOldIds + created
                            + Cardinality({h \in 1..j : success[h]}))]
        ELSE [success |-> FALSE, id |-> None]]

\* The loop over enumerate(results) of LoadStep.execute, from result j on
RECURSIVE register_results(_, _, _, _, _)
register_results(id_map, registered, records_to_load, results, j) ==
    IF j > Len(results)
    THEN [raised |-> "none", global_id_map |-> id_map, register_calls |-> registered]
    ELSE IF results[j].success
    THEN IF SalesforceIdRaises(records_to_load[j].Id) /= "none"
         THEN [raised |-> SalesforceIdRaises(records_to_load[j].Id),
               global_id_map |-> id_map, register_calls |-> registered]
         ELSE register_results(
                 register_new_id(id_map, SalesforceId(records_to_load[j].Id),
                                 SalesforceId(results[j].id)),
                 Append(registered, <<SalesforceId(records_to_load[j].Id),
                                      SalesforceId(results[j].id)>>),
                 records_to_load, results, j + 1)
    ELSE [raised |-> "Exception: Failed to load",
          global_id_map |-> id_map, register_calls |-> registered]

\* LoadStep.execute on the reader's records, with the store's verdict
\* success[j] on each record.  An exception while a record is prepared ends
\* the method before anything is sent to the store.
LoadStep_execute(step, sobjects, ms, id_map, registered, reader, success, created) ==
    LET prepared == [j \in 1..Len(reader) |->
                        record_to_load(step, sobjects, ms, id_map, reader[j])]
        raising == {j \in 1..Len(reader) : prepared[j].raised /= "none"}
    IN  IF raising /= {}
        THEN [raised |-> prepared[CHOOSE j \in raising : \A h \in raising : j <= h].raised,
              inserted |-> FALSE, records_to_load |-> <<>>, results |-> <<>>,
              global_id_map |-> id_map, register_calls |-> registered]
        ELSE LET records_to_load == [j \in 1..Len(reader) |-> prepared[j].record]
                 results == insert_results(step.sobjectname, success, created)
                 done == register_results(id_map, registered, records_to_load, results, 1)
             IN  [raised |-> done.raised,
                  inserted |-> TRUE, records_to_load |-> records_to_load,
                  results |-> results,
                  global_id_map |-> done.global_id_map,
                  register_calls |-> done.register_calls]

\* LoadStep.execute_dependent_updates.  Line 296 adds two sets with +
\* (scan_fields builds dependent_lookups and self_lookups with set
\* comprehensions); Python's set defines no +, so the statement raises
\* TypeError before any record is read and before update() is called.
LoadStep_execute_dependent_updates(step, sobjects, id_map, reader) ==
    [raised |-> "TypeError", updated |-> FALSE, records_to_load |-> <<>>]

\* a first loop that runs the updates of a step right after its inserts
after_execute_interleaved(i, n) == [at |-> "update", i |-> i]

\* LoadOperation.execute: where the first for loop goes after step i of n
after_execute(i, n) ==
    IF i < n THEN [at |-> "insert", i |-> i + 1] ELSE [at |-> "update", i |-> 1]

\* LoadOperation.execute: where the second for loop goes after step i of n
after_execute_dependent_updates(i, n) ==
    IF i < n THEN [at |-> "update", i |-> i + 1] ELSE [at |-> "done", i |-> n]

\* an exception that is swallowed: the step goes on
raise_and_go_on(i) == [at |-> "resolve", i |-> i]

\* An exception leaves execute() at once
raise(i) == [at |-> "aborted", i |-> i]

\* LoadOperation.execute, first loop: s.scan_fields(); s.execute()
LoadExecuteStep ==
    /\ pc.at = "insert"
    /\ LET step == steps[pc.i]
           reader == input_files[step.sobjectname]
       IN  \E success \in [1..Len(reader) -> BOOLEAN] :
             LET out == LoadStep_execute(step, get_sobject_list(steps), mappers,
                                         global_id_map, register_calls, reader,
                                         success, next_id)
             IN  /\ calls' = Append(calls, <<"execute", step.sobjectname>>)
                 /\ global_id_map' = out.global_id_map
                 /\ register_calls' = out.register_calls
                 /\ bulk_inserts' =
                        IF out.inserted
                        THEN [bulk_inserts EXCEPT ![step.sobjectname] =
                                Append(@, [records |-> out.records_to_load,
                                           results |-> out.results])]
                        ELSE bulk_inserts
                 /\ next_id' =
                        IF out.inserted
                        THEN next_id + Cardinality({j \in DOMAIN success : success[j]})
                        ELSE next_id
                 /\ error' = out.raised
                 /\ pc' = IF out.raised = "none"
                          THEN after_execute(pc.i, Len(steps))
                          ELSE raise(pc.i)
    /\ UNCHANGED <<steps, mappers, input_files, bulk_updates>>
    /\ UNCHANGED extractvars

\* LoadOperation.execute, second loop: s.execute_dependent_updates()
LoadExecuteDependentUpdates ==
    /\ pc.at = "update"
    /\ LET step == steps[pc.i]
           out == LoadStep_execute_dependent_updates(step, get_sobject_list(steps),
                        global_id_map, input_files[step.sobjectname])
       IN  /\ calls' = Append(calls, <<"execute_dependent_updates", step.sobjectname>>)
           /\ bulk_updates' =
                  IF out.updated
                  THEN [bulk_updates EXCEPT ![step.sobjectname] =
                          Append(@, out.records_to_load)]
                  ELSE bulk_updates
           /\ error' = out.raised
           /\ pc' = IF out.raised = "none"
                    THEN after_execute_dependent_updates(pc.i, Len(steps))
                    ELSE raise(pc.i)
    /\ UNCHANGED <<steps, mappers, input_files, global_id_map, register_calls,
                   bulk_inserts, next_id>>
    /\ UNCHANGED extractvars

(***************************************************************************)
(* The loads that are checked: one or two steps over Account (ParentId, a  *)
(* self-lookup) and Opportunity (AccountId: a descendent lookup when       *)
(* Account is loaded first, a dependent lookup when it is loaded second).  *)
(* The Account file holds up to MaxRecords records, the Opportunity file   *)
(* at most one; identifiers are written in either encoding; lookups are    *)
(* blank or name one of NumOldIds original Account identifiers, which may  *)
(* or may not be the Id of a record of the file.  Identifiers being        *)
(* interchangeable, record j of the Account file has one of the first j    *)
(* identifiers (two records with the same Id included).                    *)
(***************************************************************************)
LoadOrders == {<<"Account">>, <<"Account", "Opportunity">>, <<"Opportunity", "Account">>}

OldAccountIds(n) == {<<KeyPrefix["Account"], k, n>> : k \in 1..NumOldIds}

AccountInputRecords(n) ==
    [Id : OldAccountIds(n), Name : {SomeName}, ParentId : {Blank} \cup OldAccountIds(n)]

OpportunityInputRecords(n) ==
    [Id : {<<KeyPrefix["Opportunity"], 1, n>>}, AccountId : {Blank} \cup OldAccountIds(n)]

AccountFiles(n) ==
    {f \in SeqsUpTo(AccountInputRecords(n), MaxRecords) :
        \A j \in DOMAIN f : f[j].Id[2] <= j}

OpportunityFiles(n) == SeqsUpTo(OpportunityInputRecords(n), 1)

LoadStep(sobjectname, outside_lookup_behavior) ==
    [sobjectname |-> sobjectname,
     field_scope |-> DOMAIN FieldMap[sobjectname] \ {"Id"},
     outside_lookup_behavior |-> outside_lookup_behavior,
     lookup_behaviors |-> EmptyDict]

InitExtractIdle ==
    /\ store = [s \in SObjects |-> EmptyDict]
    /\ required_ids = [s \in SObjects |-> {}]
    /\ extracted_ids = [s \in SObjects |-> {}]
    /\ output_files = [s \in SObjects |-> EmptyDict]
    /\ queries = <<>>
    /\ before_count = 0

InitLoad ==
    /\ \E order \in LoadOrders, b \in OutsideLookupBehaviors, n \in {15, 18} :
        /\ steps = [j \in 1..Len(order) |-> LoadStep(order[j], b)]
        /\ \E fa \in AccountFiles(n), fo \in OpportunityFiles(n) :
             input_files =
                [s \in SObjects |->
                    IF ~InList(order, s) THEN <<>>
                    ELSE IF s = "Account" THEN fa ELSE fo]
    /\ mappers = EmptyDict
    /\ global_id_map = EmptyDict
    /\ register_calls = <<>>
    /\ bulk_inserts = [s \in SObjects |-> <<>>]
    /\ bulk_updates = [s \in SObjects |-> <<>>]
    /\ next_id = 0
    /\ calls = <<>>
    /\ pc = [at |-> "insert", i |-> 1]
    /\ error = "none"
    /\ InitExtractIdle

NextLoad ==
    \/ LoadExecuteStep
    \/ LoadExecuteDependentUpdates

SpecLoad == InitLoad /\ [][NextLoad]_vars

(***************************************************************************)
(* A load that is resumed: the state a run has saved is loaded into the    *)
(* operation before execute() is called.  A state saved at the stage       *)
(* "insert" holds no pair; one saved at the stage "update" holds a pair    *)
(* for every identifier of the input files.  calls starts with the state   *)
(* that was loaded.                                                        *)
(***************************************************************************)
\* save_state: 'id-map': {str(k): str(v) for k, v in operation.global_id_map.items()}
save_state(stage, id_map) ==
    [stage |-> stage,
     id_map |-> [k \in {Str(old_id) : old_id \in DOMAIN id_map} |->
                    Str(id_map[SalesforceId(k)])]]

\* StateLoader._load: {SalesforceId(k): SalesforceId(v) for k, v in id-map.items()}
load_state_id_map(state) ==
    [old_id \in {SalesforceId(k) : k \in DOMAIN state.id_map} |->
        SalesforceId(state.id_map[Str(old_id)])]

\* the table of a run that has inserted every record of the files
InsertedIdMap(files) ==
    [old_id \in UNION {{SalesforceId(files[s][j].Id) : j \in 1..Len(files[s])} : s \in SObjects}
        |-> <<old_id[1], NumOldIds + old_id[2]>>]

InitResume ==
    /\ \E order \in LoadOrders :
        /\ steps = [j \in 1..Len(order) |-> LoadStep(order[j], INCLUDE)]
        /\ \E fa \in AccountFiles(18), fo \in OpportunityFiles(18) :
             input_files =
                [s \in SObjects |->
                    IF ~InList(order, s) THEN <<>>
                    ELSE IF s = "Account" THEN fa ELSE fo]
    /\ \E state \in {save_state("insert", EmptyDict),
                     save_state("update", InsertedIdMap(input_files))} :
        /\ calls = <<<<"_load", state>>>>
        /\ global_id_map = load_state_id_map(state)
    /\ mappers = EmptyDict
    /\ register_calls = <<>>
    /\ bulk_inserts = [s \in SObjects |-> <<>>]
    /\ bulk_updates = [s \in SObjects |-> <<>>]
    /\ next_id = NumOldIds
    /\ pc = [at |-> "insert", i |-> 1]
    /\ error = "none"
    /\ InitExtractIdle

SpecResume == InitResume /\ [][NextLoad]_vars

(***************************************************************************)
(* A LoadStep on its own: the step is constructed and given a context,     *)
(* behaviors are set for fields, identifiers are registered with the       *)
(* operation, and get_value_for_lookup is called.  calls holds the last    *)
(* call of get_value_for_lookup: its arguments, the behavior set for the    *)
(* field ("unset" if none was) and the entry of the translation table at   *)
(* the time of the call (None if there was none), and what the call        *)
(* returned or raised.                                                     *)
(***************************************************************************)
\* the fields of the step and the values a lookup of an input record may hold
LookupFields == {"Name", "ParentId"}

LookupValues == {None, Blank} \cup OldAccountIds(15) \cup OldAccountIds(18)

\* LoadStep.set_lookup_behavior_for_field: self.lookup_behaviors[field] = behavior
set_lookup_behavior_for_field(step, field, behavior) ==
    [step EXCEPT !.lookup_behaviors =
        [k \in DOMAIN @ \cup {field} |-> IF k = field THEN behavior ELSE @[k]]]

\* l = LoadStep('Account', ['Name', 'ParentId'], b); l.context = LoadOperation(connection)
InitLookup ==
    /\ \E b \in OutsideLookupBehaviors :
          steps = <<[LoadStep("Account", b) EXCEPT !.field_scope = LookupFields]>>
    /\ mappers = EmptyDict
    /\ input_files = [s \in SObjects |-> <<>>]
    /\ global_id_map = EmptyDict
    /\ register_calls = <<>>
    /\ bulk_inserts = [s \in SObjects |-> <<>>]
    /\ bulk_updates = [s \in SObjects |-> <<>>]
    /\ next_id = 0
    /\ InitExtractIdle
    /\ calls = <<>>
    /\ pc = [at |-> "lookup", i |-> 1]
    /\ error = "none"

\* l.set_lookup_behavior_for_field(field, behavior)
LookupSetBehavior ==
    /\ pc.at = "lookup"
    /\ \E field \in LookupFields, behavior \in OutsideLookupBehaviors :
          steps' = [steps EXCEPT ![1] = set_lookup_behavior_for_field(@, field, behavior)]
    /\ UNCHANGED <<mappers, calls, pc, error>>
    /\ UNCHANGED loadvars
    /\ UNCHANGED extractvars

\* op.register_new_id(SalesforceId(old), SalesforceId(new)), for an original
\* Account identifier and the identifier the store gave its copy
LookupRegisterNewId ==
    /\ pc.at = "lookup"
    /\ \E k \in 1..NumOldIds :
          LET old_id == <<KeyPrefix["Account"], k>>
              new_id == <<KeyPrefix["Account"], NumOldIds + k>>
          IN  global_id_map' = register_new_id(global_id_map, old_id, new_id)
    /\ UNCHANGED <<steps, mappers, calls, pc, error>>
    /\ UNCHANGED <<input_files, register_calls, bulk_inserts, bulk_updates, next_id>>
    /\ UNCHANGED extractvars

\* l.get_value_for_lookup(lookup, value, record_id)
LookupGetValue ==
    /\ pc.at = "lookup"
    /\ \E lookup \in LookupFields, value \in LookupValues :
          LET out == get_value_for_lookup(steps[1], global_id_map, lookup, value)
          IN  /\ calls' = <<[lookup |-> lookup, value |-> value,
                             default |-> steps[1].outside_lookup_behavior,
                             set |-> IF lookup \in DOMAIN steps[1].lookup_behaviors
                                     THEN steps[1].lookup_behaviors[lookup]
                                     ELSE "unset",
                             new_id |-> IF SalesforceIdRaises(value) /= "none"
                                        THEN None
                                        ELSE get_new_id(global_id_map, SalesforceId(value)),
                             raised |-> out.raised, returned |-> out.value]>>
              /\ error' = out.raised
    /\ UNCHANGED <<steps, mappers, pc>>
    /\ UNCHANGED loadvars
    /\ UNCHANGED extractvars

NextLookup ==
    \/ LookupSetBehavior
    \/ LookupRegisterNewId
    \/ LookupGetValue

SpecLookup == InitLookup /\ [][NextLookup]_vars

(***************************************************************************)
(* Step.scan_fields on its own: an operation is given steps over any of    *)
(* the sObjects of the catalog, in any order, each with any field scope,   *)
(* and the steps scan their fields one after the other, as in the loop of  *)
(* LoadOperation.execute.  scan_fields leaves its four sets on the step.   *)
(***************************************************************************)
\* the lists of distinct sObjects
ScanOrders ==
    {order \in SeqsUpTo(SObjects, Cardinality(SObjects)) :
        /\ order /= <<>>
        /\ \A j, h \in DOMAIN order : order[j] = order[h] => j = h}

\* Step.__init__
Step(sobjectname, field_scope) == [sobjectname |-> sobjectname, field_scope |-> field_scope]

\* Step.scan_fields: the four attributes it sets
scan_fields(step, sobjects) ==
    [sobjectname |-> step.sobjectname,
     field_scope |-> step.field_scope,
     all_lookups |-> all_lookups(step.sobjectname, step.field_scope, sobjects),
     self_lookups |-> self_lookups(step.sobjectname, step.field_scope, sobjects),
     descendent_lookups |-> descendent_lookups(step.sobjectname, step.field_scope, sobjects),
     dependent_lookups |-> dependent_lookups(step.sobjectname, step.field_scope, sobjects)]

InitScan ==
    /\ \E order \in ScanOrders :
          \E scopes \in [DOMAIN order -> SUBSET (UNION {DOMAIN FieldMap[s] : s \in SObjects})] :
              /\ \A j \in DOMAIN order : scopes[j] \subseteq DOMAIN FieldMap[order[j]]
              /\ steps = [j \in DOMAIN order |-> Step(order[j], scopes[j])]
    /\ mappers = EmptyDict
    /\ input_files = [s \in SObjects |-> <<>>]
    /\ global_id_map = EmptyDict
    /\ register_calls = <<>>
    /\ bulk_inserts = [s \in SObjects |-> <<>>]
    /\ bulk_updates = [s \in SObjects |-> <<>>]
    /\ next_id = 0
    /\ InitExtractIdle
    /\ calls = <<>>
    /\ pc = [at |-> "scan", i |-> 1]
    /\ error = "none"

\* s.scan_fields(), for the steps in their order
ScanFields ==
    /\ pc.at = "scan"
    /\ steps' = [steps EXCEPT ![pc.i] = scan_fields(@, get_sobject_list(steps))]
    /\ calls' = Append(calls, <<"scan_fields", steps[pc.i].sobjectname>>)
    /\ pc' = IF pc.i < Len(steps) THEN [at |-> "scan", i |-> pc.i + 1]
             ELSE [at |-> "scanned", i |-> pc.i]
    /\ UNCHANGED <<mappers, error>>
    /\ UNCHANGED loadvars
    /\ UNCHANGED extractvars

NextScan == ScanFields

SpecScan == InitScan /\ [][NextScan]_vars

(***************************************************************************)
(* SalesforceId, character by character.  An identifier string is the      *)
(* sequence of its characters and a SalesforceId object is [id |-> the     *)
(* 18 characters it keeps].  This is the conversion that the rest of the   *)
(* model abbreviates by dropping the encoding from <<prefix, k, n>>.       *)
(* The operation stores the objects in the set of the extracted            *)
(* identifiers and uses them as keys of the translation table.             *)
(***************************************************************************)
MaxIds == 1

\* ord() of the characters the identifiers below are written with
Ord == [c \in {"0", "A", "Z", "a"} |->
            IF c = "0" THEN 48 ELSE IF c = "A" THEN 65 ELSE IF c = "Z" THEN 90 ELSE 97]

\* 'ABCDEFGHIJKLMNOPQRSTUVWXYZ012345'
SuffixCharacters ==
    <<"A", "B", "C", "D", "E", "F", "G", "H", "I", "J", "K", "L", "M", "N", "O", "P",
      "Q", "R", "S", "T", "U", "V", "W", "X", "Y", "Z", "0", "1", "2", "3", "4", "5">>

\* 1 << j
ShiftLeft(j) == 2 ^ j

\* a suffix computed with the bits of a block in the opposite order
baseTwo_reversed(idstr, i, j) ==
    IF Ord[idstr[i * 5 + (4 - j) + 1]] >= Ord["A"] /\ Ord[idstr[i * 5 + (4 - j) + 1]] <= Ord["Z"]
    THEN ShiftLeft(j) ELSE 0

\* SalesforceId.__init__, lines 30-33: what character j of block i adds to
\* baseTwo
baseTwo(idstr, i, j) ==
    IF Ord[idstr[i * 5 + j + 1]] >= Ord["A"] /\ Ord[idstr[i * 5 + j + 1]] <= Ord["Z"]
    THEN ShiftLeft(j) ELSE 0

\* SalesforceId.__init__, lines 27-34: the suffix of a 15-character string
suffix(idstr) ==
    [i \in 1..3 |->
        SuffixCharacters[1 + baseTwo(idstr, i - 1, 0) + baseTwo(idstr, i - 1, 1)
                           + baseTwo(idstr, i - 1, 2) + baseTwo(idstr, i - 1, 3)
                           + baseTwo(idstr, i - 1, 4)]]

\* SalesforceId.__init__ for a string
SalesforceId_init(idstr) ==
    IF Len(idstr) = 15 THEN [raised |-> "none", self |-> [id |-> idstr \o suffix(idstr)]]
    ELSE IF Len(idstr) = 18 THEN [raised |-> "none", self |-> [id |-> idstr]]
    ELSE [raised |-> "ValueError", self |-> None]

\* SalesforceId.__eq__ for another SalesforceId and for a string
SalesforceId_eq(self, other) == self.id = other.id

SalesforceId_eq_str(self, other) == self.id = SalesforceId_init(other).self.id

\* SalesforceId.__hash__: hash(self.id)
SalesforceId_hash(self) == <<"hash", self.id>>

\* `x in s` for a set and d.get(x, None) for a dict of SalesforceId objects:
\* an element with the hash of x that is equal to x
InIdSet(x, s) ==
    \E e \in s : SalesforceId_hash(e) = SalesforceId_hash(x) /\ SalesforceId_eq(e, x)

GetById(d, x) ==
    IF InIdSet(x, DOMAIN d)
    THEN d[CHOOSE e \in DOMAIN d :
                SalesforceId_hash(e) = SalesforceId_hash(x) /\ SalesforceId_eq(e, x)]
    ELSE None

\* blocks of five characters without, and with, upper-case letters
IdBlocks ==
    {<<"a", "0", "a", "0", "a">>, <<"A", "a", "a", "Z", "a">>, <<"Z", "A", "0", "a", "a">>}

\* the identifier strings the operation meets: 15 characters, and the same
\* with the suffix Salesforce gives them
IdStrings15 == {b1 \o b2 \o b3 : b1 \in IdBlocks, b2 \in IdBlocks, b3 \in IdBlocks}

IdStrings18 == {idstr \o suffix(idstr) : idstr \in IdStrings15}

InitIds ==
    /\ steps = <<>>
    /\ mappers = EmptyDict
    /\ input_files = [s \in SObjects |-> <<>>]
    /\ global_id_map = EmptyDict
    /\ register_calls = <<>>
    /\ bulk_inserts = [s \in SObjects |-> <<>>]
    /\ bulk_updates = [s \in SObjects |-> <<>>]
    /\ next_id = 0
    /\ InitExtractIdle
    /\ calls = <<>>
    /\ pc = [at |-> "ids", i |-> 1]
    /\ error = "none"

\* ExtractOperation.store_result, lines 354-355: the identifier of a record
\* is added to the extracted identifiers if it is not in the set
IdsExtract ==
    /\ pc.at = "ids"
    /\ Cardinality(extracted_ids.Account) < MaxIds
    /\ \E idstr \in IdStrings15 \cup IdStrings18 :
          LET id == SalesforceId_init(idstr).self
          IN  /\ ~InIdSet(id, extracted_ids.Account)
              /\ extracted_ids' = [extracted_ids EXCEPT !.Account = @ \cup {id}]
    /\ UNCHANGED <<store, required_ids, output_files, queries, before_count>>
    /\ UNCHANGED <<steps, mappers, calls, pc, error>>
    /\ UNCHANGED loadvars

\* LoadStep.execute, lines 285-288: the identifier of a record of the file
\* is registered with the identifier the store returned
IdsRegister ==
    /\ pc.at = "ids"
    /\ Cardinality(DOMAIN global_id_map) < MaxIds
    /\ \E old \in IdStrings15 \cup IdStrings18 :
          LET old_id == SalesforceId_init(old).self
              new_id == SalesforceId_init(CHOOSE idstr \in IdStrings18 : TRUE).self
          IN  /\ ~InIdSet(old_id, DOMAIN global_id_map)
              /\ global_id_map' =
                    [k \in DOMAIN global_id_map \cup {old_id} |->
                        IF k = old_id THEN new_id ELSE global_id_map[k]]
    /\ UNCHANGED <<input_files, register_calls, bulk_inserts, bulk_updates, next_id>>
    /\ UNCHANGED <<steps, mappers, calls, pc, error>>
    /\ UNCHANGED extractvars

NextIds ==
    \/ IdsExtract
    \/ IdsRegister

SpecIds == InitIds /\ [][NextIds]_vars

(***************************************************************************)
(* ExtractOperation and ExtractionStep.                                    *)
(*                                                                         *)
(* An extraction step is [sobjectname, scope, field_scope, where_clause,   *)
(* self_lookup_behavior, outside_lookup_behavior, lookup_behaviors, ids].  *)
(* where_clause is None or <<"WHERE", the records of the store that        *)
(* satisfy the clause>>; ids are the identifiers the configuration entry   *)
(* names, which the loader registers with add_dependency                   *)
(* (extract_operation.py).                                                 *)
(*                                                                         *)
(* The registries a step works on travel through the operators as one      *)
(* record st = [required_ids, extracted_ids, output_files, queries,        *)
(* raised].  required_ids and extracted_ids are total over the sObjects: a *)
(* missing key of the Python dict reads as the empty set everywhere        *)
(* (get_dependencies, get_extracted_ids, the `in` guards).  output_files   *)
(* counts the rows written per record, the order of the rows in a file     *)
(* being left out.  The store returns the records of a query in any order, *)
(* so a pass has a set of possible outcomes.                               *)
(***************************************************************************)
\* the step's behavior for every field
get_self_lookup_behavior_for_field_of_step(step, f) == step.self_lookup_behavior

\* ExtractionStep.get_self_lookup_behavior_for_field
get_self_lookup_behavior_for_field(step, f) ==
    IF f \in DOMAIN step.lookup_behaviors
    THEN step.lookup_behaviors[f]
    ELSE step.self_lookup_behavior

\* ExtractionStep.get_outside_lookup_behavior_for_field
get_outside_lookup_behavior_for_field(step, f) ==
    IF f \in DOMAIN step.lookup_behaviors
    THEN step.lookup_behaviors[f]
    ELSE step.outside_lookup_behavior

\* ExtractOperation.get_extracted_ids
get_extracted_ids(st, sobjectname) ==
    IF sobjectname \in DOMAIN st.extracted_ids THEN st.extracted_ids[sobjectname] ELSE {}

\* ExtractOperation.get_dependencies
get_dependencies(st, sobjectname) ==
    IF sobjectname \in DOMAIN st.required_ids THEN st.required_ids[sobjectname] ELSE {}

\* a dependency that is not registered
add_dependency_dropped(st, sobjectname, id) == st

\* a dependency that is registered whether or not the record is extracted
add_dependency_always(st, sobjectname, id) ==
    [st EXCEPT !.required_ids[sobjectname] = @ \cup {id}]

\* ExtractOperation.add_dependency
add_dependency(st, sobjectname, id) ==
    IF id \notin get_extracted_ids(st, sobjectname)
    THEN [st EXCEPT !.required_ids[sobjectname] = @ \cup {id}]
    ELSE st

\* a reference for which no extracted identifier is found
get_sobject_ids_for_reference_none(st, sobjectname, field) == {}

\* ExtractOperation.get_sobject_ids_for_reference
get_sobject_ids_for_reference(st, sobjectname, field) ==
    UNION {get_extracted_ids(st, name) :
             name \in Range(get_field_map(sobjectname)[field].referenceTo)}

\* `value in ids` for a raw field value and a set of SalesforceId objects:
\* only an 18-character string hashes like the object that equals it
StringInIds(value, ids) ==
    /\ IsIdString(value)
    /\ value[3] = 18
    /\ SalesforceId(value) \in ids

\* one more row written to a file
WriteRow(rows, row) ==
    IF row \in DOMAIN rows
    THEN [rows EXCEPT ![row] = @ + 1]
    ELSE [r \in DOMAIN rows \cup {row} |-> IF r = row THEN 1 ELSE rows[r]]

\* a sink that is handed every record it receives
context_store_result_rewriting(st, sobjectname, record) ==
    [st EXCEPT !.extracted_ids[sobjectname] = @ \cup {SalesforceId(record.Id)},
               !.output_files[sobjectname] = WriteRow(@, record),
               !.required_ids[sobjectname] = @ \ {SalesforceId(record.Id)}]

\* a store that keeps the identifier of the last record only
context_store_result_replacing(st, sobjectname, record) ==
    [st EXCEPT !.extracted_ids[sobjectname] = {SalesforceId(record.Id)},
               !.required_ids[sobjectname] = @ \ {SalesforceId(record.Id)}]

\* ExtractOperation.store_result
context_store_result(st, sobjectname, record) ==
    LET id == SalesforceId(record.Id)
        row == IF sobjectname \in DOMAIN mappers
               THEN mapper_transform_record(mappers[sobjectname], record)
               ELSE record
        stored ==
            IF id \notin st.extracted_ids[sobjectname]
            THEN [st EXCEPT !.extracted_ids[sobjectname] = @ \cup {id},
                            !.output_files[sobjectname] = WriteRow(@, row)]
            ELSE st
    IN  [stored EXCEPT !.required_ids[sobjectname] = @ \ {id}]

\* ExtractionStep.store_result, first loop: the self-lookups of the record
RECURSIVE add_self_dependencies(_, _, _, _)
add_self_dependencies(st, step, result, lookups) ==
    IF lookups = {} THEN st
    ELSE LET l == CHOOSE l \in lookups : TRUE
             next == IF /\ get_self_lookup_behavior_for_field(step, l) /= TRACE_NONE
                        /\ result[l] /= None
                     THEN add_dependency(st, step.sobjectname, SalesforceId(result[l]))
                     ELSE st
         IN  add_self_dependencies(next, step, result, lookups \ {l})

\* a test that skips the references to sObjects outside the operation only
skips_dependent_reference_outside_only(step, sobject_list, f, lookup_value) ==
    LET referenceTo == get_field_map(step.sobjectname)[f].referenceTo
    IN  \/ lookup_value = None
        \/ /\ Len(referenceTo) > 1
           /\ ~InList(sobject_list, get_sobject_name_for_id(lookup_value))

\* ExtractionStep.store_result, lines 459-474: whether the loop over the
\* dependent lookups goes on to the next field without adding a dependency
skips_dependent_reference(step, sobject_list, f, lookup_value) ==
    LET referenceTo == get_field_map(step.sobjectname)[f].referenceTo
        target_sobject == get_sobject_name_for_id(lookup_value)
    IN  \/ lookup_value = None
        \/ /\ Len(referenceTo) > 1
           /\ \/ ~InList(sobject_list, target_sobject)
              \/ Index(sobject_list, target_sobject)
                    < Index(sobject_list, step.sobjectname)

\* ExtractionStep.store_result, second loop: the dependent lookups of the record
RECURSIVE add_dependent_dependencies(_, _, _, _, _)
add_dependent_dependencies(st, step, sobject_list, result, lookups) ==
    IF lookups = {} THEN st
    ELSE LET f == CHOOSE f \in lookups : TRUE
             lookup_value == result[f]
             referenceTo == get_field_map(step.sobjectname)[f].referenceTo
             target_sobject == IF Len(referenceTo) > 1
                               THEN get_sobject_name_for_id(lookup_value)
                               ELSE referenceTo[1]
             next == IF skips_dependent_reference(step, sobject_list, f, lookup_value)
                     THEN st
                     ELSE add_dependency(st, target_sobject, SalesforceId(lookup_value))
         IN  add_dependent_dependencies(next, step, sobject_list, result, lookups \ {f})

\* an intake that lets every reference through
descendent_outcome_unchecked(st, step, result, f) == "keep"

\* ExtractionStep.store_result, third loop, for one descendent lookup f: what
\* the loop body does with the record: "keep", "drop" (del result[f]) or the
\* exception it raises.  A polymorphic field takes the target from the
\* value's key prefix, and None has no prefix (TypeError).
descendent_outcome(st, step, result, f) ==
    LET lookup_value == result[f]
        referenceTo == get_field_map(step.sobjectname)[f].referenceTo
        behavior == get_outside_lookup_behavior_for_field(step, f)
    IN  IF Len(referenceTo) /= 1 /\ lookup_value = None THEN "TypeError"
        ELSE LET target_sobject == IF Len(referenceTo) = 1
                                   THEN referenceTo[1]
                                   ELSE get_sobject_name_for_id(lookup_value)
             IN  IF StringInIds(lookup_value, get_extracted_ids(st, target_sobject))
                 THEN "keep"
                 ELSE IF behavior = DROP_FIELD THEN "drop"
                 ELSE IF behavior = INCLUDE THEN "keep"
                 ELSE IF behavior = ERROR THEN "Exception: outside reference"
                 ELSE IF behavior = RECURSE THEN "NotImplementedError"
                 ELSE "keep"

\* ExtractionStep.store_result
store_result(st, step, result) ==
    LET sobject_list == get_sobject_list(steps)
        s == step.sobjectname
        st1 == add_self_dependencies(st, step, result,
                    self_lookups(s, step.field_scope, sobject_list))
        st2 == add_dependent_dependencies(st1, step, sobject_list, result,
                    dependent_lookups(s, step.field_scope, sobject_list))
        descendents == descendent_lookups(s, step.field_scope, sobject_list)
        raising == {f \in descendents :
                        descendent_outcome(st2, step, result, f) \notin {"keep", "drop"}}
        dropped == {f \in descendents : descendent_outcome(st2, step, result, f) = "drop"}
    IN  IF raising /= {}
        THEN [st2 EXCEPT !.raised =
                descendent_outcome(st2, step, result, CHOOSE f \in raising : TRUE)]
        ELSE context_store_result(st2, s, [f \in DOMAIN result \ dropped |-> result[f]])

\* the records of a query are stored one after the other, in the order the
\* store returns them; an exception ends the pass
RECURSIVE store_results(_, _, _)
store_results(st, step, results) ==
    IF results = {} THEN {st}
    ELSE UNION {LET next == store_result(st, step, r)
                IN  IF next.raised /= "none" THEN {next}
                    ELSE store_results(next, step, results \ {r}) : r \in results}

\* what a SELECT of the step's field list returns for a record of the store
Selected(step, record) == [f \in step.field_scope |-> record[f]]

\* ExtractionStep.perform_bulk_api_pass: every record of the sObject, or
\* those that satisfy the WHERE clause
perform_bulk_api_pass(st, step, where_clause) ==
    LET s == step.sobjectname
        found == {id \in DOMAIN store[s] : where_clause = None \/ id \in where_clause[2]}
        asked == [st EXCEPT !.queries =
                    Append(@, [sobjectname |-> s, api |-> "bulk", where |-> where_clause])]
    IN  store_results(asked, step, {Selected(step, store[s][id]) : id \in found})

\* Step.get_field_list: len(', '.join(self.field_scope))
RECURSIVE len_field_list(_)
len_field_list(field_scope) ==
    IF field_scope = {} THEN 0
    ELSE LET f == CHOOSE f \in field_scope : TRUE
         IN  Len(f) + (IF field_scope = {f} THEN 0 ELSE 2 + len_field_list(field_scope \ {f}))

\* a limit that leaves the clause twice the room
max_len_doubled(step) == 8000 - (Len("WHERE ") + len_field_list(step.field_scope) + Len(" IN ()"))

\* ExtractionStep.perform_id_field_pass, line 537:
\* max_len = 4000 - len('WHERE {} IN ()'.format(self.get_field_list()))
max_len(step) == 4000 - (Len("WHERE ") + len_field_list(step.field_scope) + Len(" IN ()"))

\* set.pop(): some element of the set
pop(ids) == CHOOSE id \in ids : TRUE

\* one turn of the inner loop, lines 545-546, on its variables: id_list is
\* the sequence of the identifiers of the list, len the number of characters
\* of the list (an identifier is written with its 18 characters between
\* quotes, and ", " before it if it is not the first), ids the identifiers
\* left.  Nothing changes once the condition of the loop is false.
add_to_id_list(b, limit) ==
    CHOOSE next \in
        {IF c.len < limit - 22 /\ c.ids /= {}
         THEN [id_list |-> Append(c.id_list, pop(c.ids)),
               len |-> c.len + Len(", '") + 18 + Len("'"),
               ids |-> c.ids \ {pop(c.ids)}]
         ELSE c : c \in {b}} : TRUE

\* the inner loop: turns are taken, eight at a time to keep the evaluation
\* shallow, until the condition is false
RECURSIVE build_id_list(_, _)
build_id_list(b, limit) ==
    LET two(c) == add_to_id_list(add_to_id_list(c, limit), limit)
        eight(c) == two(two(two(two(c))))
    IN  CHOOSE built \in
            {IF c.len < limit - 22 /\ c.ids /= {}
             THEN build_id_list(eight(c), limit)
             ELSE c : c \in {b}} : TRUE

\* the outer loop, lines 539-553: while identifiers are left, a list is
\* built, the records whose id_field is one of its identifiers are queried
\* and stored, and the next list is built from what is left
RECURSIVE query_id_lists(_, _, _, _)
query_id_lists(st, step, id_field, ids) ==
    IF ids = {} THEN {st}
    ELSE UNION {
        LET s == step.sobjectname
            found == {id \in DOMAIN store[s] :
                        /\ store[s][id][id_field] /= None
                        /\ SalesforceId(store[s][id][id_field]) \in Range(built.id_list)}
            asked == [st EXCEPT !.queries =
                        Append(@, [sobjectname |-> s, api |-> "query_all",
                                   where |-> <<id_field, Range(built.id_list)>>,
                                   id_list |-> built.id_list,
                                   where_len |-> Len("WHERE ") + Len(id_field)
                                                   + Len(" IN (") + built.len + Len(")")])]
        IN  UNION {IF next.raised /= "none" THEN {next}
                   ELSE query_id_lists(next, step, id_field, built.ids) :
                       next \in store_results(asked, step,
                                   {Selected(step, store[s][id]) : id \in found})} :
        built \in {build_id_list([id_list |-> <<pop(ids)>>,
                                  len |-> Len("'") + 18 + Len("'"),
                                  ids |-> ids \ {pop(ids)}], max_len(step))}}

\* ExtractionStep.perform_id_field_pass: nothing is asked for an empty set;
\* otherwise the identifiers of a copy of the set are asked for list by list
perform_id_field_pass(st, step, id_field, id_set) ==
    IF id_set = {} THEN {st}
    ELSE query_id_lists(st, step, id_field, id_set)

\* ExtractionStep.perform_lookup_pass
perform_lookup_pass(st, step, field) ==
    perform_id_field_pass(st, step, field,
        get_sobject_ids_for_reference(st, step.sobjectname, field))

\* for f in lookups: self.perform_lookup_pass(f), the set being iterated in
\* any order
RECURSIVE perform_lookup_passes(_, _, _)
perform_lookup_passes(st, step, lookups) ==
    IF lookups = {} THEN {st}
    ELSE UNION {UNION {IF next.raised /= "none" THEN {next}
                       ELSE perform_lookup_passes(next, step, lookups \ {f}) :
                          next \in perform_lookup_pass(st, step, f)} : f \in lookups}

\* a resolution that does not look at what is still required
resolve_registered_dependencies_lenient(st, step) ==
    perform_id_field_pass(st, step, "Id", get_dependencies(st, step.sobjectname))

\* ExtractionStep.resolve_registered_dependencies
resolve_registered_dependencies(st, step) ==
    LET pre_deps == get_dependencies(st, step.sobjectname)
    IN  {IF next.raised /= "none" THEN next
         ELSE IF get_dependencies(next, step.sobjectname) \cap pre_deps /= {}
         THEN [next EXCEPT !.raised = "Exception: Unable to resolve dependencies"]
         ELSE next : next \in perform_id_field_pass(st, step, "Id", pre_deps)}

\* a scope pass whose QUERY branch goes on into the DESCENDENTS branch
scope_pass_into_descendents(st, step) ==
    IF step.scope = ALL_RECORDS THEN perform_bulk_api_pass(st, step, None)
    ELSE IF step.scope = QUERY
    THEN UNION {IF next.raised /= "none" THEN {next}
                ELSE perform_lookup_passes(next, step,
                        descendent_lookups(step.sobjectname, step.field_scope,
                                           get_sobject_list(steps))) :
                   next \in perform_bulk_api_pass(st, step, step.where_clause)}
    ELSE IF step.scope = DESCENDENTS
    THEN perform_lookup_passes(st, step,
            descendent_lookups(step.sobjectname, step.field_scope, get_sobject_list(steps)))
    ELSE {st}

\* ExtractionStep.execute, lines 392-407: the pass the scope asks for
scope_pass(st, step) ==
    IF step.scope = ALL_RECORDS THEN perform_bulk_api_pass(st, step, None)
    ELSE IF step.scope = QUERY THEN perform_bulk_api_pass(st, step, step.where_clause)
    ELSE IF step.scope = DESCENDENTS
    THEN perform_lookup_passes(st, step,
            descendent_lookups(step.sobjectname, step.field_scope, get_sobject_list(steps)))
    ELSE {st}

\* ExtractionStep.execute, lines 416-417: whether the self-lookups are traced
traces_self_lookups(step) ==
    /\ Cardinality(self_lookups(step.sobjectname, step.field_scope,
                                get_sobject_list(steps))) > 0
    /\ step.self_lookup_behavior = TRACE_ALL
    /\ step.scope /= ALL_RECORDS

\* a loop that is left after its first round
trace_finished_early(before, after) == TRUE

\* ExtractionStep.execute, line 439: the test that leaves the while loop
trace_finished(before, after) == before = after

\* ExtractOperation.execute: where the for loop goes when step i of n returns
after_step(i, n) ==
    IF i < n THEN [at |-> "execute", i |-> i + 1] ELSE [at |-> "done", i |-> n]

\* a scope pass after which every step falls through to the resolution
after_scope_pass_falling_through(step, i, n) == [at |-> "resolve", i |-> i]

\* ExtractionStep.execute, lines 392-402: the ALL_RECORDS branch returns
\* after its pass, the other branches fall through to line 413
after_scope_pass(step, i, n) ==
    IF step.scope = ALL_RECORDS THEN after_step(i, n) ELSE [at |-> "resolve", i |-> i]

\* the registries as one record, and back
Registries ==
    [required_ids |-> required_ids, extracted_ids |-> extracted_ids,
     output_files |-> output_files, queries |-> queries, raised |-> "none"]

\* registries that are put back as they were when the pass has raised
SetRegistries_rolled_back(st) ==
    /\ required_ids' = IF st.raised /= "none" THEN required_ids ELSE st.required_ids
    /\ extracted_ids' = IF st.raised /= "none" THEN extracted_ids ELSE st.extracted_ids
    /\ output_files' = IF st.raised /= "none" THEN output_files ELSE st.output_files
    /\ queries' = st.queries
    /\ error' = st.raised

\* the registries of the operation after a pass
SetRegistries(st) ==
    /\ required_ids' = st.required_ids
    /\ extracted_ids' = st.extracted_ids
    /\ output_files' = st.output_files
    /\ queries' = st.queries
    /\ error' = st.raised

\* ExtractOperation.execute calls s.execute(), which runs lines 384-407
ExtractScopePass ==
    /\ pc.at = "execute"
    /\ LET step == steps[pc.i]
       IN  \E st \in scope_pass(Registries, step) :
             /\ SetRegistries(st)
             /\ pc' = IF st.raised /= "none" THEN raise(pc.i)
                      ELSE after_scope_pass(step, pc.i, Len(steps))
             /\ calls' = Append(calls, <<"execute", step.sobjectname>>)
    /\ UNCHANGED <<steps, mappers, store, before_count>>
    /\ UNCHANGED loadvars

\* ExtractionStep.execute, lines 413-417
ExtractResolve ==
    /\ pc.at = "resolve"
    /\ LET step == steps[pc.i]
       IN  \E st \in resolve_registered_dependencies(Registries, step) :
             /\ SetRegistries(st)
             /\ pc' = IF st.raised /= "none" THEN raise(pc.i)
                      ELSE IF traces_self_lookups(step)
                      THEN [at |-> "children", i |-> pc.i]
                      ELSE after_step(pc.i, Len(steps))
    /\ UNCHANGED <<steps, mappers, store, before_count, calls>>
    /\ UNCHANGED loadvars

\* ExtractionStep.execute, lines 428-432: before_count and the children pass
ExtractTraceChildren ==
    /\ pc.at = "children"
    /\ LET step == steps[pc.i]
       IN  /\ before_count' = Cardinality(get_extracted_ids(Registries, step.sobjectname))
           /\ \E st \in perform_lookup_passes(Registries, step,
                            self_lookups(step.sobjectname, step.field_scope,
                                         get_sobject_list(steps))) :
                /\ SetRegistries(st)
                /\ pc' = IF st.raised /= "none" THEN raise(pc.i)
                         ELSE [at |-> "parents", i |-> pc.i]
    /\ UNCHANGED <<steps, mappers, store, calls>>
    /\ UNCHANGED loadvars

\* ExtractionStep.execute, lines 435-440: the parents pass and the loop test
ExtractTraceParents ==
    /\ pc.at = "parents"
    /\ LET step == steps[pc.i]
       IN  \E st \in resolve_registered_dependencies(Registries, step) :
             /\ SetRegistries(st)
             /\ pc' = IF st.raised /= "none" THEN raise(pc.i)
                      ELSE IF trace_finished(before_count,
                                Cardinality(get_extracted_ids(st, step.sobjectname)))
                      THEN after_step(pc.i, Len(steps))
                      ELSE [at |-> "children", i |-> pc.i]
    /\ UNCHANGED <<steps, mappers, store, before_count, calls>>
    /\ UNCHANGED loadvars

NextExtract ==
    \/ ExtractScopePass
    \/ ExtractResolve
    \/ ExtractTraceChildren
    \/ ExtractTraceParents

(***************************************************************************)
(* The extractions that are checked.                                       *)
(***************************************************************************)
ExtractionStep(sobjectname, scope, where_clause, self_lookup_behavior, outside_lookup_behavior, lookup_behaviors, ids) ==
    [sobjectname |-> sobjectname,
     scope |-> scope,
     field_scope |-> DOMAIN FieldMap[sobjectname],
     where_clause |-> where_clause,
     self_lookup_behavior |-> self_lookup_behavior,
     outside_lookup_behavior |-> outside_lookup_behavior,
     lookup_behaviors |-> lookup_behaviors,
     ids |-> ids]

IdOf(sobjectname, k) == <<KeyPrefix[sobjectname], k>>

\* the value of a lookup to record k of an sObject, 0 standing for no record
Ref(sobjectname, k) == IF k = 0 THEN None ELSE Str(IdOf(sobjectname, k))

InitLoadIdle ==
    /\ input_files = [s \in SObjects |-> <<>>]
    /\ global_id_map = EmptyDict
    /\ register_calls = <<>>
    /\ bulk_inserts = [s \in SObjects |-> <<>>]
    /\ bulk_updates = [s \in SObjects |-> <<>>]
    /\ next_id = 0

\* the state in which ExtractOperation.execute() is called
InitExtractRegistries ==
    /\ required_ids =
          [s \in SObjects |-> UNION {steps[j].ids : j \in {j \in 1..Len(steps) :
                                                             steps[j].sobjectname = s}}]
    /\ extracted_ids = [s \in SObjects |-> {}]
    /\ output_files = [s \in SObjects |-> EmptyDict]
    /\ queries = <<>>
    /\ before_count = 0
    /\ calls = <<>>
    /\ pc = [at |-> "execute", i |-> 1]
    /\ error = "none"
    /\ InitLoadIdle

(***************************************************************************)
(* A hierarchy: one step over Account, the store holding NumAccounts       *)
(* accounts with any parents (cycles included, no account its own parent). *)
(* The step has any scope; a SELECTED_RECORDS step names no record, one    *)
(* record of the store, or an identifier the store does not hold; a QUERY  *)
(* step's clause finds no record or one.  The rows are written as they     *)
(* are read, or through a DataMapper that renames a column.                *)
(***************************************************************************)
NumAccounts == 3

AccountMapper == [Account |-> [field_name_mapping |-> [Name |-> "Account Name"]]]

AccountStores ==
    {[id \in {IdOf("Account", k) : k \in 1..NumAccounts} |->
        [Id |-> Str(id), Name |-> SomeName, ParentId |-> Ref("Account", parent[id[2]])]] :
     parent \in {p \in [1..NumAccounts -> 0..NumAccounts] :
                    \A k \in 1..NumAccounts : p[k] /= k}}

HierarchyScopes ==
    {[scope |-> ALL_RECORDS, where_clause |-> None, ids |-> {}],
     [scope |-> DESCENDENTS, where_clause |-> None, ids |-> {}]}
    \cup {[scope |-> SELECTED_RECORDS, where_clause |-> None, ids |-> ids] :
            ids \in {{}} \cup {{IdOf("Account", k)} : k \in 1..(NumAccounts + 1)}}
    \cup {[scope |-> QUERY, where_clause |-> <<"WHERE", found>>, ids |-> {}] :
            found \in {{}} \cup {{IdOf("Account", k)} : k \in 1..NumAccounts}}

SelfLookupOverrides ==
    {EmptyDict, [ParentId |-> TRACE_ALL], [ParentId |-> TRACE_NONE]}

InitHierarchy ==
    /\ \E accounts \in AccountStores :
          store = [s \in SObjects |-> IF s = "Account" THEN accounts ELSE EmptyDict]
    /\ \E sc \in HierarchyScopes, slb \in {TRACE_ALL, TRACE_NONE},
          lb \in SelfLookupOverrides :
          steps = <<ExtractionStep("Account", sc.scope, sc.where_clause, slb,
                                   INCLUDE, lb, sc.ids)>>
    /\ (mappers = EmptyDict \/ mappers = AccountMapper)
    /\ InitExtractRegistries

SpecHierarchy == InitHierarchy /\ [][NextExtract]_vars

\* the hierarchies whose step enters the self-lookup loop
InitHierarchyTraced ==
    /\ InitHierarchy
    /\ mappers = EmptyDict
    /\ traces_self_lookups(steps[1])

\* execute() is one thread of control that never waits: a step that can be
\* taken is taken
SpecHierarchyLive == InitHierarchyTraced /\ [][NextExtract]_vars /\ WF_vars(NextExtract)

(***************************************************************************)
(* Selected records: one step over Account with the SELECTED_RECORDS       *)
(* scope, any field scope that holds Id, and the first m identifiers, m up *)
(* to MaxSelected, registered as required; the store holds none, one or    *)
(* two of them, as accounts without a parent.  MaxSelected identifiers do  *)
(* not fit in one WHERE clause.                                            *)
(***************************************************************************)
MaxSelected == 185

SelectedStores ==
    {[id \in {IdOf("Account", k) : k \in 1..n} |->
        [Id |-> Str(id), Name |-> SomeName, ParentId |-> None]] : n \in 0..2}

InitSelected ==
    /\ \E accounts \in SelectedStores :
          store = [s \in SObjects |-> IF s = "Account" THEN accounts ELSE EmptyDict]
    /\ \E m \in 0..MaxSelected, fields \in SUBSET {"Name", "ParentId"} :
          steps = <<[ExtractionStep("Account", SELECTED_RECORDS, None, TRACE_ALL, INCLUDE,
                                    EmptyDict, {IdOf("Account", k) : k \in 1..m})
                        EXCEPT !.field_scope = {"Id"} \cup fields]>>
    /\ mappers = EmptyDict
    /\ InitExtractRegistries

SpecSelected == InitSelected /\ [][NextExtract]_vars

(***************************************************************************)
(* Several sObjects: two accounts, NumOpportunities opportunities and one  *)
(* task, in the orders that make Opportunity.AccountId a dependent or a    *)
(* descendent lookup and Task.WhatId a dependent lookup with a target      *)
(* before the step, after it, or outside the operation.  Every lookup of   *)
(* the store refers to a record of the store.  Each step has any scope; a  *)
(* SELECTED_RECORDS step names the first record of its sObject and a QUERY *)
(* step's clause finds it.  The sObjects that are no step hold only what   *)
(* the steps' records refer to.                                            *)
(***************************************************************************)
NumOpportunities == 1

ExtractOrders ==
    {<<"Opportunity", "Account">>, <<"Account", "Opportunity">>,
     <<"Account", "Task", "Opportunity">>, <<"Task", "Account">>}

ScopeOf(sobjectname, scope) ==
    [scope |-> scope,
     where_clause |-> IF scope = QUERY THEN <<"WHERE", {IdOf(sobjectname, 1)}>> ELSE None,
     ids |-> IF scope = SELECTED_RECORDS THEN {IdOf(sobjectname, 1)} ELSE {}]

TwoAccountStores ==
    {[id \in {IdOf("Account", 1), IdOf("Account", 2)} |->
        [Id |-> Str(id), Name |-> SomeName,
         ParentId |-> IF id[2] = 1 THEN None ELSE Ref("Account", parent)]] :
     parent \in {0, 1}}

OpportunityStores(order) ==
    {[id \in {IdOf("Opportunity", k) : k \in 1..NumOpportunities} |->
        [Id |-> Str(id), AccountId |-> Ref("Account", account[id[2]])]] :
     account \in [1..NumOpportunities ->
                    IF InList(order, "Opportunity") THEN {0, 1, 2} ELSE {0}]}

TaskStores(order) ==
    IF InList(order, "Task")
    THEN {[id \in {IdOf("Task", 1)} |-> [Id |-> Str(id), WhatId |-> what]] :
            what \in {None, Ref("Account", 1), Ref("Account", 2), Ref("Opportunity", 1)}}
    ELSE {EmptyDict}

InitExtract ==
    /\ \E order \in ExtractOrders :
          /\ \E accounts \in TwoAccountStores, opportunities \in OpportunityStores(order),
                tasks \in TaskStores(order) :
                store = [s \in SObjects |-> IF s = "Account" THEN accounts
                                            ELSE IF s = "Opportunity" THEN opportunities
                                            ELSE tasks]
          /\ \E scopes \in [1..Len(order) ->
                              {ALL_RECORDS, QUERY, SELECTED_RECORDS, DESCENDENTS}],
                b \in OutsideLookupBehaviors :
                steps = [j \in 1..Len(order) |->
                           LET sc == ScopeOf(order[j], scopes[j])
                           IN  ExtractionStep(order[j], sc.scope, sc.where_clause,
                                              TRACE_ALL, b, EmptyDict, sc.ids)]
    /\ mappers = EmptyDict
    /\ InitExtractRegistries

SpecExtract == InitExtract /\ [][NextExtract]_vars

(***************************************************************************)
(* The runs that can be aborted.  A load whose steps have the ERROR        *)
(* behavior fails on an outside reference, or on a record the store        *)
(* refuses.  An extraction of selected Accounts, after all Opportunities   *)
(* or on its own, fails when a selected identifier is not in the store:    *)
(* the store holds two accounts, the step selects any of three.            *)
(***************************************************************************)
AbortingOrders == {<<"Account">>, <<"Opportunity", "Account">>}

SelectedAccountIds == SUBSET {IdOf("Account", k) : k \in 1..3}

InitAbortingExtraction ==
    /\ \E order \in AbortingOrders :
          /\ \E accounts \in TwoAccountStores, opportunities \in OpportunityStores(order) :
                store = [s \in SObjects |-> IF s = "Account" THEN accounts
                                            ELSE IF s = "Opportunity" THEN opportunities
                                            ELSE EmptyDict]
          /\ \E ids \in SelectedAccountIds :
                steps = [j \in 1..Len(order) |->
                           IF order[j] = "Account"
                           THEN ExtractionStep("Account", SELECTED_RECORDS, None,
                                               TRACE_ALL, INCLUDE, EmptyDict, ids)
                           ELSE ExtractionStep(order[j], ALL_RECORDS, None,
                                               TRACE_ALL, INCLUDE, EmptyDict, {})]
    /\ mappers = EmptyDict
    /\ InitExtractRegistries

InitAborting ==
    \/ InitLoad /\ steps[1].outside_lookup_behavior = ERROR
    \/ InitAbortingExtraction

NextAborting ==
    \/ NextLoad
    \/ NextExtract

SpecAborting == InitAborting /\ [][NextAborting]_vars

(***************************************************************************)
(* Claims about the extraction.                                            *)
(***************************************************************************)
\* the record a lookup value refers to, as a set: empty for None
Referred(value) == IF value = None THEN {} ELSE {SalesforceId(value)}

\* the records reached from the records S by following field f upwards, and
\* the records from which S is reached, in at most n steps
RECURSIVE Above(_, _, _, _)
Above(sobjectname, f, S, n) ==
    IF n = 0 THEN S
    ELSE Above(sobjectname, f,
               S \cup UNION {Referred(store[sobjectname][id][f]) : id \in S}, n - 1)

RECURSIVE Below(_, _, _, _)
Below(sobjectname, f, S, n) ==
    IF n = 0 THEN S
    ELSE Below(sobjectname, f,
               S \cup {id \in DOMAIN store[sobjectname] :
                          Referred(store[sobjectname][id][f]) \cap S /= {}}, n - 1)

Ancestors(id) == Above("Account", "ParentId", {id}, Cardinality(DOMAIN store.Account))
Descendants(id) == Below("Account", "ParentId", {id}, Cardinality(DOMAIN store.Account))

\* a, b, c are a chain A <- B <- C to which no other record of the store is tied
IsChain(a, b, c) ==
    /\ Cardinality({a, b, c}) = 3
    /\ store.Account[a].ParentId = None
    /\ Referred(store.Account[b].ParentId) = {a}
    /\ Referred(store.Account[c].ParentId) = {b}
    /\ \A d \in DOMAIN store.Account \ {a, b, c} :
          Referred(store.Account[d].ParentId) \cap {a, b, c} = {}

\* the step is over Account, selects the one record seed of the store, and
\* traces the self-lookup ParentId, at the step and at the field
SeededWith(seed) ==
    /\ Len(steps) = 1
    /\ steps[1].sobjectname = "Account"
    /\ steps[1].scope = SELECTED_RECORDS
    /\ steps[1].ids = {seed}
    /\ seed \in DOMAIN store.Account
    /\ steps[1].self_lookup_behavior = TRACE_ALL
    /\ get_self_lookup_behavior_for_field(steps[1], "ParentId") = TRACE_ALL

\* C1: a SELECTED_RECORDS step that traces its self-lookup and is seeded with
\* one record of the store does not fail, and when it has finished the
\* extracted set holds the seed, every ancestor and every descendant of it;
\* for a chain A <- B <- C seeded with C or with B it is exactly {A, B, C}.
C1_SelfLookupTraceReachesAll ==
    \A seed \in DOMAIN store.Account :
        SeededWith(seed) =>
            /\ pc.at /= "aborted"
            /\ pc.at = "done" =>
                /\ Ancestors(seed) \cup Descendants(seed) \subseteq extracted_ids.Account
                /\ \A a, b, c \in DOMAIN store.Account :
                      IsChain(a, b, c) /\ seed \in {b, c}
                          => extracted_ids.Account = {a, b, c}

\* the chain seeded with its last record has been extracted
C1_Witness ==
    /\ pc.at = "done"
    /\ \E a, b, c \in DOMAIN store.Account :
          /\ IsChain(a, b, c)
          /\ SeededWith(c)
          /\ extracted_ids.Account = {a, b, c}

\* the sObject a lookup value of field f refers to
TargetOf(sobjectname, f, value) ==
    LET referenceTo == get_field_map(sobjectname)[f].referenceTo
    IN  IF Len(referenceTo) = 1 THEN referenceTo[1] ELSE get_sobject_name_for_id(value)

\* the non-null dependent-lookup values of the records written to the files
\* whose target is a step of the operation
DependentReferences ==
    LET sobject_list == get_sobject_list(steps)
    IN  {r \in UNION {UNION {{[sobjectname |-> steps[j].sobjectname, field |-> f,
                               value |-> row[f]] :
                                f \in dependent_lookups(steps[j].sobjectname,
                                                        steps[j].field_scope, sobject_list)
                                        \cap DOMAIN row} :
                             row \in DOMAIN output_files[steps[j].sobjectname]} :
                      j \in 1..Len(steps)} :
            /\ r.value /= None
            /\ InList(sobject_list, TargetOf(r.sobjectname, r.field, r.value))}

\* C2, as stated: when execute() has completed, every non-null
\* dependent-lookup value of an extracted record whose target is a step of
\* the operation refers to an extracted record of the target.
C2_DependentReferencesExtracted ==
    pc.at = "done" =>
        \A r \in DependentReferences :
            SalesforceId(r.value)
                \in extracted_ids[TargetOf(r.sobjectname, r.field, r.value)]

\* C2, amended: when execute() has completed, every non-null
\* dependent-lookup value of an extracted record whose target is a step of
\* the operation that comes after the record's own step refers to an
\* extracted record of the target.
C2_LaterDependentReferencesExtracted ==
    pc.at = "done" =>
        \A r \in DependentReferences :
            Index(get_sobject_list(steps), TargetOf(r.sobjectname, r.field, r.value))
                    > Index(get_sobject_list(steps), r.sobjectname)
                => SalesforceId(r.value)
                      \in extracted_ids[TargetOf(r.sobjectname, r.field, r.value)]

\* an extraction has completed in which a record that no other step asks for
\* was extracted because of a reference of an earlier step
C2_Witness ==
    /\ pc.at = "done"
    /\ \E r \in DependentReferences :
          LET target == TargetOf(r.sobjectname, r.field, r.value)
          IN  /\ Index(get_sobject_list(steps), target)
                    > Index(get_sobject_list(steps), r.sobjectname)
              /\ StepOf(target).scope = DESCENDENTS
              /\ SalesforceId(r.value) \in extracted_ids[target]

\* the records of the store a query of the log returned
Returned(q) ==
    LET s == q.sobjectname
    IN  IF q.api = "bulk"
        THEN {id \in DOMAIN store[s] : q.where = None \/ id \in q.where[2]}
        ELSE {id \in DOMAIN store[s] :
                /\ store[s][id][q.where[1]] /= None
                /\ SalesforceId(store[s][id][q.where[1]]) \in q.where[2]}

\* how many rows of the file of an sObject carry an identifier
RowsOf(sobjectname, id) ==
    LET rows == output_files[sobjectname]
        carrying == {row \in DOMAIN rows : SalesforceId(row.Id) = id}
    IN  IF carrying = {} THEN 0
        ELSE IF Cardinality(carrying) = 1 THEN rows[CHOOSE row \in carrying : TRUE]
        ELSE Cardinality(carrying)

\* C11: whatever passes have returned a record, the file of its sObject holds
\* at most one row for its identifier, and exactly one once the identifier is
\* in the extracted set; and ExtractOperation.store_result, handed a record
\* whose identifier is already extracted, writes nothing and adds nothing,
\* but leaves the identifier out of the required set even if it was there.
C11_SinkReceivesEachIdOnce ==
    \A s \in SObjects : \A id \in DOMAIN store[s] :
        /\ RowsOf(s, id) = IF id \in extracted_ids[s] THEN 1 ELSE 0
        /\ LET before == [Registries EXCEPT !.required_ids[s] = @ \cup {id}]
               after == context_store_result(before, s, store[s][id])
           IN  /\ id \notin after.required_ids[s]
               /\ id \in extracted_ids[s] =>
                     /\ after.output_files = output_files
                     /\ after.extracted_ids = extracted_ids

\* an extraction has completed in which two queries returned the same
\* record, and the file holds one row for it
C11_Witness ==
    /\ pc.at = "done"
    /\ \E g, h \in 1..Len(queries) :
          /\ g < h
          /\ queries[g].sobjectname = queries[h].sobjectname
          /\ \E id \in Returned(queries[g]) \cap Returned(queries[h]) :
                RowsOf(queries[g].sobjectname, id) = 1

\* the while loop of the step is left: the parents pass returns and the
\* step returns with it
LoopExit == pc.at = "parents" /\ pc'.at \notin {"children", "aborted"}

\* the records of an sObject that refer to one of the records S through field f
ChildrenOf(sobjectname, f, S) ==
    {id \in DOMAIN store[sobjectname] : Referred(store[sobjectname][id][f]) \cap S /= {}}

\* C12: the self-lookup loop of an extraction step ends on every store
\* (execute() returns or raises), and it is left only after an iteration
\* that added no identifier to the extracted set: the count is the one taken
\* before the children pass, every record that refers to an extracted record
\* is extracted, and no identifier is left required, so that one more
\* iteration would add nothing.
C12_TraceLoopTerminatesAtFixedPoint ==
    /\ <>(pc.at \in {"done", "aborted"})
    /\ [][LoopExit =>
            LET s == steps[pc.i].sobjectname
            IN  /\ Cardinality(extracted_ids'[s]) = before_count
                /\ extracted_ids'[s] = extracted_ids[s]
                /\ ChildrenOf(s, "ParentId", extracted_ids'[s]) \subseteq extracted_ids'[s]
                /\ required_ids'[s] = {}]_vars

\* the loop has been left after more than one iteration, with every account
\* of the store extracted
C12_Witness ==
    /\ pc.at = "done"
    /\ traces_self_lookups(steps[1])
    /\ extracted_ids.Account = DOMAIN store.Account
    /\ \E g, h \in 1..Len(queries) :
          /\ g < h
          /\ queries[g].where[1] = "ParentId"
          /\ queries[h].where[1] = "ParentId"

\* a step of execute() that is one call of resolve_registered_dependencies
ResolvePass == pc.at \in {"resolve", "parents"} /\ pc' /= pc

\* C13: a call of resolve_registered_dependencies raises exactly when an
\* identifier that was required for the step's sObject when the call started
\* is still required after the lookup by Id; the failure is the "unable to
\* resolve" exception and ends execute(); identifiers that the records
\* received in the pass have registered do not count.
C13_ResolveFailsIffStillRequired ==
    [][ResolvePass =>
          LET s == steps[pc.i].sobjectname
              unresolved == required_ids'[s] \cap required_ids[s]
          IN  /\ (pc'.at = "aborted") <=> (unresolved /= {})
              /\ (error' /= "none") <=> (unresolved /= {})
              /\ unresolved /= {} => error' = "Exception: Unable to resolve dependencies"]_vars

\* a resolution has returned although the records it received registered
\* identifiers that are now required
C13_Witness ==
    /\ pc.at = "children"
    /\ error = "none"
    /\ required_ids.Account /= {}
    /\ required_ids.Account \cap steps[1].ids = {}
    /\ steps[1].ids \subseteq extracted_ids.Account
    /\ steps[1].ids /= {}

\* step j of the operation has done nothing yet: no query, no row, no
\* extracted identifier
Untouched(j) ==
    LET s == steps[j].sobjectname
    IN  /\ \A g \in 1..Len(queries) : queries[g].sobjectname /= s
        /\ output_files[s] = EmptyDict
        /\ extracted_ids[s] = {}

\* the step at which execute() stands returns in this step of the model
StepReturns == pc.at /= "aborted" /\ (pc'.i > pc.i \/ pc'.at = "done")

\* what has happened when a step returns: an ALL_RECORDS step has made its
\* bulk pass, a step that traces self-lookups has left its loop with every
\* child of an extracted record extracted, any other step has resolved its
\* dependencies
StepHasCompleted ==
    LET step == steps[pc.i]
        s == step.sobjectname
    IN  IF step.scope = ALL_RECORDS THEN pc.at = "execute"
        ELSE IF traces_self_lookups(step)
        THEN /\ pc.at = "parents"
             /\ \A f \in self_lookups(s, step.field_scope, get_sobject_list(steps)) :
                   ChildrenOf(s, f, extracted_ids'[s]) \subseteq extracted_ids'[s]
        ELSE pc.at = "resolve"

\* C14: execute() calls the steps in the declared order; the queries of the
\* log are grouped by step in that order and a step that has not been called
\* has made no query, written no row and extracted nothing; a step returns
\* only when it has completed, its self-lookup loop included; and after an
\* exception nothing happens any more.
C14_StepsRunInOrderAndAbortStops ==
    /\ [](LET sobjects == get_sobject_list(steps)
          IN  /\ Len(calls) <= Len(sobjects)
              /\ \A j \in 1..Len(calls) : calls[j] = <<"execute", sobjects[j]>>
              /\ pc.i \in {Len(calls), Len(calls) + 1}
              /\ \A g, h \in 1..Len(queries) :
                    g < h => Index(sobjects, queries[g].sobjectname)
                                <= Index(sobjects, queries[h].sobjectname)
              /\ \A j \in 1..Len(steps) : j > Len(calls) => Untouched(j))
    /\ [][StepReturns => StepHasCompleted]_vars
    /\ [][error = "none" /\ pc.at /= "aborted"]_vars
    /\ [](error /= "none" <=> pc.at = "aborted")

\* the second of three steps has raised after the first made a query, and
\* the third has done nothing
C14_Witness ==
    /\ Len(steps) = 3
    /\ pc = [at |-> "aborted", i |-> 2]
    /\ error /= "none"
    /\ \E g \in 1..Len(queries) : queries[g].sobjectname = steps[1].sobjectname
    /\ Untouched(3)

\* step j is a child type extracted by its descendent lookups alone: scope
\* DESCENDENTS, no self-lookup, no identifier named by the configuration and
\* none registered by an earlier step (no query by Id was made for it)
DescendentsOnly(j) ==
    LET step == steps[j]
        s == step.sobjectname
        sobjects == get_sobject_list(steps)
    IN  /\ step.scope = DESCENDENTS
        /\ self_lookups(s, step.field_scope, sobjects) = {}
        /\ descendent_lookups(s, step.field_scope, sobjects) /= {}
        /\ step.ids = {}
        /\ \A g \in 1..Len(queries) :
              queries[g].sobjectname = s => queries[g].where[1] /= "Id"

\* the records of step j's sObject whose value of a descendent lookup is an
\* extracted record of a target that is an earlier step
ChildrenOfExtracted(j) ==
    LET step == steps[j]
        s == step.sobjectname
        sobjects == get_sobject_list(steps)
        parents(f) == UNION {extracted_ids[t] :
                                t \in {t \in Range(get_field_map(s)[f].referenceTo) :
                                          InList(sobjects, t) /\ Index(sobjects, t) < j}}
    IN  {id \in DOMAIN store[s] :
            \E f \in descendent_lookups(s, step.field_scope, sobjects) :
                Referred(store[s][id][f]) \cap parents(f) /= {}}

\* C15: when the extraction has completed, a child type extracted with the
\* DESCENDENTS scope after its parent type, with no self-lookup and no
\* registered dependency, has as its extracted set exactly the records of
\* the store whose descendent-lookup value is in the parent's extracted set.
C15_DescendentsScopeExtractsChildren ==
    pc.at = "done" =>
        \A j \in 1..Len(steps) :
            DescendentsOnly(j) => extracted_ids[steps[j].sobjectname] = ChildrenOfExtracted(j)

\* Opportunity has been extracted by DESCENDENTS after Account, of which not
\* every record was extracted
C15_Witness ==
    /\ pc.at = "done"
    /\ get_sobject_list(steps) = <<"Account", "Opportunity">>
    /\ DescendentsOnly(2)
    /\ extracted_ids.Opportunity /= {}
    /\ extracted_ids.Account /= DOMAIN store.Account

\* the queries of the log made for an sObject, in order
QueriesOf(sobjectname) ==
    LET ForIt(q) == q.sobjectname = sobjectname
    IN  SelectSeq(queries, ForIt)

\* C16: a step with the ALL_RECORDS scope that has been called has made
\* exactly one query, an unfiltered bulk query: no pass by a lookup field or
\* by Id follows, whatever self-lookups, descendent lookups or registered
\* dependencies the step has; and unless the intake of a record raised, the
\* step's extracted set is every record of its sObject in the store.
C16_AllRecordsIsOneBulkPass ==
    \A j \in 1..Len(calls) :
        steps[j].scope = ALL_RECORDS =>
            LET s == steps[j].sobjectname
            IN  /\ Len(QueriesOf(s)) = 1
                /\ QueriesOf(s)[1].api = "bulk"
                /\ QueriesOf(s)[1].where = None
                /\ ~(pc.at = "aborted" /\ pc.i = j) =>
                      /\ extracted_ids[s] = DOMAIN store[s]
                      /\ pc.i > j \/ pc.at = "done"

\* an ALL_RECORDS step over Account, whose records refer to each other, has
\* returned after an earlier step extracted records
C16_Witness ==
    /\ pc.at = "done"
    /\ \E j \in 2..Len(steps) :
          /\ steps[j].sobjectname = "Account"
          /\ steps[j].scope = ALL_RECORDS
          /\ \E g \in 1..Len(queries) : queries[g].sobjectname = steps[1].sobjectname
          /\ extracted_ids[steps[1].sobjectname] /= {}
          /\ \E id \in DOMAIN store.Account : store.Account[id].ParentId /= None
          /\ extracted_ids.Account = DOMAIN store.Account

\* the value of field f of a record of the store refers to a record that is
\* not in the extracted set of its target
OutsideReference(sobjectname, f, id) ==
    LET value == store[sobjectname][id][f]
    IN  /\ value /= None
        /\ SalesforceId(value) \notin extracted_ids[TargetOf(sobjectname, f, value)]

\* the rows of the file of an sObject that carry an identifier
RowsCarrying(sobjectname, id) ==
    {row \in DOMAIN output_files[sobjectname] : SalesforceId(row.Id) = id}

\* C17: for a record whose descendent-lookup field f refers to a record that
\* is not in the extracted set of the target, the intake of the record
\* (ExtractionStep.store_result) under DROP_FIELD writes the record without
\* f and with its other fields, under INCLUDE writes the record with f as the
\* store holds it, and under ERROR raises, writes nothing and adds nothing to
\* the extracted sets; so the files hold such a record without f, or whole,
\* or not at all.
C17_OutsideReferenceBehaviors ==
    \A j \in 1..Len(steps) :
        LET step == steps[j]
            s == step.sobjectname
        IN  \A f \in descendent_lookups(s, step.field_scope, get_sobject_list(steps)) :
                \A id \in DOMAIN store[s] :
                    LET record == store[s][id]
                        behavior == get_outside_lookup_behavior_for_field(step, f)
                        after == store_result(Registries, step, record)
                        without == [g \in DOMAIN record \ {f} |-> record[g]]
                    IN  OutsideReference(s, f, id) =>
                          /\ behavior = DROP_FIELD =>
                                /\ after.raised = "none"
                                /\ after.output_files[s] =
                                      IF id \in extracted_ids[s] THEN output_files[s]
                                      ELSE WriteRow(output_files[s], without)
                                /\ id \in after.extracted_ids[s]
                                /\ RowsCarrying(s, id) \subseteq {without}
                          /\ behavior = INCLUDE =>
                                /\ after.raised = "none"
                                /\ after.output_files[s] =
                                      IF id \in extracted_ids[s] THEN output_files[s]
                                      ELSE WriteRow(output_files[s], record)
                                /\ id \in after.extracted_ids[s]
                                /\ RowsCarrying(s, id) \subseteq {record}
                          /\ behavior = ERROR =>
                                /\ after.raised = "Exception: outside reference"
                                /\ after.output_files = output_files
                                /\ after.extracted_ids = extracted_ids
                                /\ id \notin extracted_ids[s]
                                /\ RowsCarrying(s, id) = {}

\* the extraction of Opportunity after Account has been aborted by an
\* Opportunity whose AccountId refers to an Account that was not extracted,
\* after another Opportunity was written
C17_Witness ==
    /\ pc.at = "aborted"
    /\ error = "Exception: outside reference"
    /\ get_sobject_list(steps) = <<"Account", "Opportunity">>
    /\ pc.i = 2
    /\ steps[2].outside_lookup_behavior = ERROR
    /\ extracted_ids.Account /= {}
    /\ \E id \in DOMAIN store.Opportunity :
          /\ OutsideReference("Opportunity", "AccountId", id)
          /\ id \notin extracted_ids.Opportunity

(***************************************************************************)
(* Claims about the load.                                                  *)
(***************************************************************************)
\* execute() has returned or has been left by an exception
Finished == pc.at \in {"done", "aborted"}

\* the fields execute_dependent_updates is about
DeferredLookups(step) ==
    self_lookups(step.sobjectname, step.field_scope, get_sobject_list(steps))
        \cup dependent_lookups(step.sobjectname, step.field_scope, get_sobject_list(steps))

\* the store accepted every record it was sent
NoInsertFailure ==
    \A s \in SObjects : \A b \in 1..Len(bulk_inserts[s]) :
        \A j \in DOMAIN bulk_inserts[s][b].results : bulk_inserts[s][b].results[j].success

\* the first loop of LoadOperation.execute has run to its end
PhaseOneComplete == \E c \in 1..Len(calls) : calls[c][1] = "execute_dependent_updates"

\* two Account records whose ParentId name each other
CircularPair ==
    /\ get_sobject_list(steps) = <<"Account">>
    /\ Len(input_files["Account"]) = 2
    /\ input_files["Account"][1].Id /= input_files["Account"][2].Id
    /\ input_files["Account"][1].ParentId = input_files["Account"][2].Id
    /\ input_files["Account"][2].ParentId = input_files["Account"][1].Id

\* C3: a load of two records X and Y of one type whose self-lookups name each
\* other completes without error, inserts both in phase 1, updates both in
\* phase 2, and leaves X's lookup at Y's new identifier and Y's at X's.
C3_CircularSelfLookupLoads ==
    (CircularPair /\ Finished /\ NoInsertFailure) =>
        /\ error = "none"
        /\ pc.at = "done"
        /\ Len(bulk_inserts["Account"]) = 1
        /\ Len(bulk_inserts["Account"][1].records) = 2
        /\ Len(bulk_updates["Account"]) = 1
        /\ LET X == input_files["Account"][1]
               Y == input_files["Account"][2]
               newX == Str(get_new_id(global_id_map, SalesforceId(X.Id)))
               newY == Str(get_new_id(global_id_map, SalesforceId(Y.Id)))
               batch == bulk_updates["Account"][1]
           IN  /\ \E j \in DOMAIN batch : batch[j].Id = newX /\ batch[j].ParentId = newY
               /\ \E j \in DOMAIN batch : batch[j].Id = newY /\ batch[j].ParentId = newX

\* C4: no step's dependent-update phase starts before every step's insert
\* phase has completed, and each phase visits the steps in the declared order.
C4_UpdatesAfterAllInserts ==
    LET sobjects == get_sobject_list(steps)
        IsExecute(c) == c[1] = "execute"
        IsUpdate(c) == c[1] = "execute_dependent_updates"
        executes == SelectSeq(calls, IsExecute)
        updates == SelectSeq(calls, IsUpdate)
    IN  /\ \A c \in 1..Len(calls) :
              IsUpdate(calls[c]) =>
                  \A j \in 1..Len(sobjects) :
                      \E h \in 1..(c - 1) : calls[h] = <<"execute", sobjects[j]>>
        /\ Len(executes) <= Len(sobjects)
        /\ \A j \in 1..Len(executes) : executes[j][2] = sobjects[j]
        /\ Len(updates) <= Len(sobjects)
        /\ \A j \in 1..Len(updates) : updates[j][2] = sobjects[j]

\* C4 witness: a load of two steps whose dependent-update phase has started
C4_Witness ==
    /\ Len(steps) = 2
    /\ \E c \in 1..Len(calls) : calls[c][1] = "execute_dependent_updates"

\* C5: a record the store rejects in a bulk insert does not end the load: no
\* translation entry is registered for it, the other records of the batch are
\* still processed (every accepted record is registered), and the remaining
\* steps still run.
C5_RecordFailureIsNotFatal ==
    \A s \in SObjects : \A b \in 1..Len(bulk_inserts[s]) :
        LET batch == bulk_inserts[s][b]
        IN  (\E j \in DOMAIN batch.results : ~batch.results[j].success) =>
                /\ error /= "Exception: Failed to load"
                /\ \A h \in DOMAIN batch.results :
                      batch.results[h].success =>
                          \E r \in 1..Len(register_calls) :
                              register_calls[r] = <<SalesforceId(batch.records[h].Id),
                                                    SalesforceId(batch.results[h].id)>>
                /\ Finished =>
                      \A j \in 1..Len(steps) :
                          \E c \in 1..Len(calls) : calls[c] = <<"execute", steps[j].sobjectname>>

\* C6: the translation table is append-only: the mapping the first
\* register_new_id stored for an old identifier is the one the table keeps,
\* whatever insert results follow.
C6_TranslationTableAppendOnly ==
    \A r \in 1..Len(register_calls) :
        LET old_id == register_calls[r][1]
            first == CHOOSE h \in 1..r :
                        /\ register_calls[h][1] = old_id
                        /\ \A g \in 1..(h - 1) : register_calls[g][1] /= old_id
        IN  get_new_id(global_id_map, old_id) = register_calls[first][2]

\* C7: after an insert batch, the table maps the original identifier of every
\* accepted record j to the new identifier of result j, and an identifier
\* that no accepted record carries is not present.
C7_ResultsPairedByPosition ==
    /\ \A s \in SObjects : \A b \in 1..Len(bulk_inserts[s]) :
          LET batch == bulk_inserts[s][b]
          IN  \A j \in DOMAIN batch.results :
                  batch.results[j].success =>
                      get_new_id(global_id_map, SalesforceId(batch.records[j].Id))
                          = SalesforceId(batch.results[j].id)
    /\ \A old_id \in DOMAIN global_id_map :
          \E s \in SObjects : \E b \in 1..Len(bulk_inserts[s]) :
              \E j \in DOMAIN bulk_inserts[s][b].results :
                  /\ bulk_inserts[s][b].results[j].success
                  /\ SalesforceId(bulk_inserts[s][b].records[j].Id) = old_id

\* C8: a record sent in a phase-1 insert batch carries only fields of the
\* step's field scope that are neither self-lookups nor dependent lookups
\* (these and the original Id are removed), and a descendent-lookup value
\* that has a translation entry is sent translated.
C8_InsertCarriesNoDeferredLookups ==
    \A i \in 1..Len(steps) :
        LET step == steps[i]
            s == step.sobjectname
            descendents == descendent_lookups(s, step.field_scope, get_sobject_list(steps))
        IN  \A b \in 1..Len(bulk_inserts[s]) :
                \A j \in DOMAIN bulk_inserts[s][b].records :
                    LET record == bulk_inserts[s][b].records[j]
                        input == input_files[s][j]
                    IN  /\ DOMAIN record \subseteq (step.field_scope \ DeferredLookups(step))
                        /\ \A f \in descendents \cap DOMAIN record :
                              (/\ SalesforceIdRaises(input[f]) = "none"
                               /\ SalesforceId(input[f]) \in DOMAIN global_id_map)
                                  => record[f] = Str(global_id_map[SalesforceId(input[f])])

\* C9: the step's dependent-update phase sends the store an update batch
\* whose records hold exactly the record's identifier and its self- and
\* dependent-lookup fields, the identifier being the record's new one.
C9_UpdateCarriesNewIdAndLookups ==
    \A c \in 1..Len(calls) :
        calls[c][1] = "execute_dependent_updates" =>
            LET s == calls[c][2]
                step == StepOf(s)
            IN  /\ Len(bulk_updates[s]) = 1
                /\ \A j \in DOMAIN bulk_updates[s][1] :
                      LET record == bulk_updates[s][1][j]
                      IN  /\ DOMAIN record = {"Id"} \cup DeferredLookups(step)
                          /\ \E h \in DOMAIN input_files[s] :
                                record.Id = Str(get_new_id(global_id_map,
                                                    SalesforceId(input_files[s][h].Id)))

\* C10: once phase 1 has completed with no failure, every self- or
\* dependent-lookup value of an input record that names an inserted record
\* is sent to the store, in phase 2, as that record's new identifier.
C10_PhaseTwoResolvesLookups ==
    (Finished /\ PhaseOneComplete /\ NoInsertFailure) =>
        \A i \in 1..Len(steps) :
            LET step == steps[i]
                s == step.sobjectname
            IN  \A j \in DOMAIN input_files[s] : \A f \in DeferredLookups(step) :
                    LET value == input_files[s][j][f]
                    IN  (/\ SalesforceIdRaises(value) = "none"
                         /\ SalesforceId(value) \in DOMAIN global_id_map)
                            => \E b \in 1..Len(bulk_updates[s]) :
                                  \E h \in DOMAIN bulk_updates[s][b] :
                                      bulk_updates[s][b][h][f]
                                          = Str(global_id_map[SalesforceId(value)])

\* the descendent-lookup fields of record h of a phase-1 batch of step j
\* whose value in the input file is an identifier without an entry in the
\* translation table
Untranslated(j, h) ==
    LET step == steps[j]
        s == step.sobjectname
        record == input_files[s][h]
    IN  {f \in descendent_lookups(s, step.field_scope, get_sobject_list(steps))
                \cap DOMAIN record :
            /\ SalesforceIdRaises(record[f]) = "none"
            /\ get_new_id(global_id_map, SalesforceId(record[f])) = None}

\* C18: in phase 1, under DROP_FIELD, a descendent-lookup field whose value
\* has no entry in the translation table is not a field of the record handed
\* to insert.
C18_DropFieldOmitsField ==
    \A j \in 1..Len(steps) :
        LET s == steps[j].sobjectname
        IN  \A b \in 1..Len(bulk_inserts[s]) : \A h \in DOMAIN bulk_inserts[s][b].records :
                \A f \in Untranslated(j, h) :
                    get_lookup_behavior_for_field(steps[j], f) = DROP_FIELD =>
                        f \notin DOMAIN bulk_inserts[s][b].records[h]

\* the behavior in force for the last call of get_value_for_lookup: the one
\* set for the field if one was set, the one of the step otherwise
InForce(call) == IF call.set /= "unset" THEN call.set ELSE call.default

\* C19: a call of get_value_for_lookup with an identifier returns the new
\* identifier, as a string, when the translation table has an entry for it,
\* whatever the behavior; without an entry it returns the value it was given
\* under INCLUDE, the empty string under DROP_FIELD, and raises under ERROR;
\* the behavior is the one set for the field with
\* set_lookup_behavior_for_field, or the step's own if none was set.
C19_GetValueForLookup ==
    \A c \in DOMAIN calls :
        LET call == calls[c]
        IN  call.value \notin {None, Blank} =>
                IF call.new_id /= None
                THEN /\ call.raised = "none"
                     /\ call.returned = <<call.new_id[1], call.new_id[2], 18>>
                ELSE /\ InForce(call) = INCLUDE =>
                        call.raised = "none" /\ call.returned = call.value
                     /\ InForce(call) = DROP_FIELD =>
                        call.raised = "none" /\ call.returned = Blank
                     /\ InForce(call) = ERROR =>
                        call.raised = "Exception: outside reference"

\* get_value_for_lookup has returned the empty string for an identifier
\* without an entry, for a field set to DROP_FIELD on a step constructed with
\* another behavior, while another identifier has an entry
C19_Witness ==
    /\ Len(calls) = 1
    /\ calls[1].value \notin {None, Blank}
    /\ calls[1].new_id = None
    /\ global_id_map /= EmptyDict
    /\ calls[1].set = DROP_FIELD
    /\ calls[1].default = INCLUDE
    /\ calls[1].returned = Blank
    /\ calls[1].raised = "none"

\* C20: a call of get_value_for_lookup with the empty string returns the
\* empty string and raises nothing.
C20_BlankLookupIsReturned ==
    \A c \in DOMAIN calls :
        calls[c].value = Blank =>
            calls[c].raised = "none" /\ calls[c].returned = Blank

\* C21: an outside reference on a field whose behavior is RECURSE is a hard
\* error.  On intake, no record of the store whose descendent lookup is such
\* a reference is extracted or written; in a load, a call of
\* get_value_for_lookup with an identifier that has no entry in the
\* translation table raises.
C21_RecurseFailsLoudly ==
    /\ pc.at /= "lookup" =>
          \A j \in 1..Len(steps) :
              LET step == steps[j]
                  s == step.sobjectname
              IN  \A f \in descendent_lookups(s, step.field_scope, get_sobject_list(steps)) :
                      \A id \in DOMAIN store[s] :
                          /\ OutsideReference(s, f, id)
                          /\ get_outside_lookup_behavior_for_field(step, f) = RECURSE
                          => /\ id \notin extracted_ids[s]
                             /\ RowsCarrying(s, id) = {}
                             /\ store_result(Registries, step, store[s][id]).raised
                                    = "NotImplementedError"
    /\ pc.at = "lookup" =>
          \A c \in DOMAIN calls :
              /\ calls[c].value \notin {None, Blank}
              /\ calls[c].new_id = None
              /\ InForce(calls[c]) = RECURSE
              => calls[c].raised /= "none"

(***************************************************************************)
(* Claims about scan_fields.                                               *)
(***************************************************************************)
\* the steps that have scanned their fields
Scanned == {j \in 1..Len(steps) : "all_lookups" \in DOMAIN steps[j]}

\* the sets of a scanned step, among the three, that hold a field
SetsHolding(step, f) ==
    {name \in {"self_lookups", "descendent_lookups", "dependent_lookups"} : f \in step[name]}

\* C22: after scan_fields a reference field of the scope with one target
\* type, that type being a step of the operation, is in exactly one of the
\* three sets: self_lookups if the target is the step's own type,
\* descendent_lookups if it comes earlier in the list, dependent_lookups if
\* it comes later; and a field in two of the sets has several target types.
C22_ScanFieldsClassifiesOnce ==
    \A j \in Scanned :
        LET step == steps[j]
            sobjects == get_sobject_list(steps)
            field_map == get_field_map(step.sobjectname)
        IN  \A f \in DOMAIN field_map :
                /\ /\ f \in step.field_scope
                   /\ field_map[f].type = "reference"
                   /\ Len(field_map[f].referenceTo) = 1
                   /\ InList(sobjects, field_map[f].referenceTo[1])
                   => LET target == Index(sobjects, field_map[f].referenceTo[1])
                      IN  SetsHolding(step, f) =
                            IF target = j THEN {"self_lookups"}
                            ELSE IF target < j THEN {"descendent_lookups"}
                            ELSE {"dependent_lookups"}
                /\ Cardinality(SetsHolding(step, f)) > 1 =>
                      Len(field_map[f].referenceTo) > 1

\* Account, Task and Opportunity have scanned their fields in this order:
\* ParentId is a self-lookup, AccountId a descendent lookup, and WhatId,
\* which refers to either, both a descendent and a dependent lookup
C22_Witness ==
    /\ pc.at = "scanned"
    /\ get_sobject_list(steps) = <<"Account", "Task", "Opportunity">>
    /\ SetsHolding(steps[1], "ParentId") = {"self_lookups"}
    /\ SetsHolding(steps[3], "AccountId") = {"descendent_lookups"}
    /\ SetsHolding(steps[2], "WhatId") = {"descendent_lookups", "dependent_lookups"}

\* C23: after scan_fields the three sets hold only fields of the step's
\* scope that are references with a target type among the steps of the
\* operation; a field that is no reference, and a reference all of whose
\* target types are outside the operation, is in none of them.
C23_ScanFieldsKeepsToScopeAndOperation ==
    \A j \in Scanned :
        LET step == steps[j]
            sobjects == get_sobject_list(steps)
            field_map == get_field_map(step.sobjectname)
            inside(f) == \E g \in 1..Len(field_map[f].referenceTo) :
                            InList(sobjects, field_map[f].referenceTo[g])
        IN  \A f \in DOMAIN field_map :
                /\ SetsHolding(step, f) /= {} =>
                      /\ f \in step.field_scope
                      /\ field_map[f].type = "reference"
                      /\ inside(f)
                /\ field_map[f].type /= "reference" \/ ~inside(f) =>
                      SetsHolding(step, f) = {}

\* Opportunity and Task have scanned their fields in an operation without
\* Account: AccountId, in the scope of Opportunity, refers outside the
\* operation, and WhatId, which refers to Opportunity, is not in the scope
\* of Task; neither is in any of the sets
C23_Witness ==
    /\ pc.at = "scanned"
    /\ get_sobject_list(steps) = <<"Opportunity", "Task">>
    /\ steps[1].field_scope = {"Id", "AccountId"}
    /\ steps[2].field_scope = {"Id"}
    /\ SetsHolding(steps[1], "AccountId") = {}
    /\ SetsHolding(steps[2], "WhatId") = {}

(***************************************************************************)
(* Claims about the identifier lists of a query.                           *)
(***************************************************************************)
\* a step of execute() that makes one identifier-set lookup, and the set it
\* is made over: the required identifiers for the lookup by Id, the
\* extracted identifiers for the lookup by the self-lookup
IdSetLookup == pc.at \in {"resolve", "children", "parents"} /\ pc' /= pc

LookedUp ==
    IF pc.at = "children" THEN extracted_ids[steps[pc.i].sobjectname]
    ELSE required_ids[steps[pc.i].sobjectname]

\* the queries the step has added to the log
Asked == SubSeq(queries', Len(queries) + 1, Len(queries'))

\* C24: the queries of an identifier-set lookup over M identifiers carry
\* lists that partition the set: every identifier of the set is in exactly
\* one place of one list, the lists hold nothing else, no list is empty and
\* no query is made when M = 0; and the WHERE clause of every query has
\* less than 4,000 characters, whatever the field scope.
C24_IdListsPartitionTheSet ==
    [][IdSetLookup =>
        /\ \A id \in LookedUp :
              Cardinality({place \in (1..Len(Asked)) \X (1..Cardinality(LookedUp)) :
                              /\ place[2] <= Len(Asked[place[1]].id_list)
                              /\ Asked[place[1]].id_list[place[2]] = id}) = 1
        /\ \A g \in 1..Len(Asked) :
              /\ Asked[g].api = "query_all"
              /\ Asked[g].id_list /= <<>>
              /\ Range(Asked[g].id_list) \subseteq LookedUp
              /\ Asked[g].where_len < 4000
        /\ LookedUp = {} => Asked = <<>>]_vars

\* a lookup by Id of MaxSelected identifiers has been made with two queries
C24_Witness ==
    /\ Cardinality(steps[1].ids) = MaxSelected
    /\ Len(queries) = 2
    /\ queries[2].api = "query_all"
    /\ queries[1].where_len > 3900
    /\ Len(queries[1].id_list) + Len(queries[2].id_list) = MaxSelected
    /\ extracted_ids.Account /= {}

(***************************************************************************)
(* Claims about SalesforceId.                                              *)
(***************************************************************************)
\* the upper-case letters among the characters of the identifiers
UpperCase == {"A", "Z"}

\* the 18-character form of a 15-character identifier, as Salesforce
\* defines it: each block of five characters gives one character, the one
\* at the place, in A-Z followed by 0-5, whose binary digits are the
\* upper-case characters of the block, the first character being the
\* lowest digit
RECURSIVE BlockValue(_, _)
BlockValue(block, j) ==
    IF j > Len(block) THEN 0
    ELSE (IF block[j] \in UpperCase THEN 1 ELSE 0) + 2 * BlockValue(block, j + 1)

Form18(idstr) ==
    idstr \o [i \in 1..3 |->
                SuffixCharacters[1 + BlockValue(SubSeq(idstr, 5 * i - 4, 5 * i), 1)]]

\* strings of 0, 14, 16, 17 and 19 characters
OtherStrings ==
    {<<>>} \cup UNION {{SubSeq(idstr, 1, 14), idstr \o <<"A">>, idstr \o <<"A", "A">>,
                        idstr \o <<"A", "A", "A", "A">>} : idstr \in IdStrings15}

\* C25: for every 15-character string, the SalesforceId built from it and
\* the one built from its 18-character form are equal, to each other and to
\* either string, and have the same hash; so both are found, or neither, in
\* the extracted identifiers, and both get the same entry of the
\* translation table, in whichever encoding the identifiers came in.  A
\* string of another length is rejected.
C25_IdentifierEncodingsAgree ==
    /\ \A idstr \in IdStrings15 :
          LET a == SalesforceId_init(idstr)
              b == SalesforceId_init(Form18(idstr))
          IN  /\ a.raised = "none" /\ b.raised = "none"
              /\ SalesforceId_eq(a.self, b.self)
              /\ SalesforceId_eq_str(a.self, Form18(idstr))
              /\ SalesforceId_eq_str(b.self, idstr)
              /\ SalesforceId_hash(a.self) = SalesforceId_hash(b.self)
              /\ InIdSet(a.self, extracted_ids.Account) <=> InIdSet(b.self, extracted_ids.Account)
              /\ GetById(global_id_map, a.self) = GetById(global_id_map, b.self)
    /\ \A idstr \in OtherStrings : SalesforceId_init(idstr).raised = "ValueError"

\* an identifier with upper-case letters in each of its blocks is among the
\* extracted identifiers and has an entry in the translation table, and
\* both of its encodings find it
C25_Witness ==
    \E idstr \in IdStrings15 :
        /\ \A i \in 1..3 : Form18(idstr)[15 + i] /= "A"
        /\ Form18(idstr)[16] /= Form18(idstr)[17]
        /\ InIdSet(SalesforceId_init(idstr).self, extracted_ids.Account)
        /\ InIdSet(SalesforceId_init(Form18(idstr)).self, extracted_ids.Account)
        /\ InIdSet(SalesforceId_init(idstr).self, DOMAIN global_id_map)
        /\ InIdSet(SalesforceId_init(Form18(idstr)).self, DOMAIN global_id_map)

Aborts == pc.at /= "aborted" /\ pc'.at = "aborted"

\* the results of the batch the aborting step has sent, before the first failure
SucceededBeforeFailure(batch) ==
    {j \in 1..Len(batch.results) : \A h \in 1..j : batch.results[h].success}

\* C27: when a fatal error aborts an extraction or a load, nothing done
\* before the error is rolled back.  The step that aborts keeps every
\* extracted identifier, every written row and every translation entry of
\* the state it started from, together with what the failing step itself had
\* done before the error: the batch it had sent to the store, the entries
\* registered for the results before the first failure (the entry of the
\* last record when several records have one Id), and the records
\* found by a resolution pass whose dependencies stay unresolved.  Nothing
\* happens after the abort.
C27_AbortKeepsWhatWasDone ==
    [][/\ pc.at /= "aborted"
       /\ Aborts =>
            /\ \A s \in DOMAIN extracted_ids :
                 /\ extracted_ids[s] \subseteq extracted_ids'[s]
                 /\ \A row \in DOMAIN output_files[s] :
                      /\ row \in DOMAIN output_files'[s]
                      /\ output_files'[s][row] >= output_files[s][row]
            /\ \A old_id \in DOMAIN global_id_map :
                 /\ old_id \in DOMAIN global_id_map'
                 /\ global_id_map'[old_id] = global_id_map[old_id]
            /\ \A s \in DOMAIN bulk_inserts :
                 SubSeq(bulk_inserts'[s], 1, Len(bulk_inserts[s])) = bulk_inserts[s]
            /\ error' = "Exception: Failed to load" =>
                 LET s == steps[pc.i].sobjectname
                     batch == bulk_inserts'[s][Len(bulk_inserts'[s])]
                 IN  /\ Len(bulk_inserts'[s]) = Len(bulk_inserts[s]) + 1
                     /\ \A j \in SucceededBeforeFailure(batch) :
                          /\ SalesforceId(batch.records[j].Id) \in DOMAIN global_id_map'
                          /\ \/ global_id_map'[SalesforceId(batch.records[j].Id)]
                                   = SalesforceId(batch.results[j].id)
                             \/ \E h \in SucceededBeforeFailure(batch) :
                                   /\ h > j
                                   /\ SalesforceId(batch.records[h].Id)
                                         = SalesforceId(batch.records[j].Id)
            /\ error' = "Exception: Unable to resolve dependencies" =>
                 LET s == steps[pc.i].sobjectname
                 IN  \A id \in required_ids[s] \cap DOMAIN store[s] :
                        id \in extracted_ids'[s]
      ]_vars

\* an extraction aborted in its second step on an identifier the store does
\* not hold, after the Opportunities were extracted and after the failing
\* step has written the Accounts it did find
C27_Witness ==
    /\ pc = [at |-> "aborted", i |-> 2]
    /\ error = "Exception: Unable to resolve dependencies"
    /\ extracted_ids["Opportunity"] /= {}
    /\ extracted_ids["Account"] /= {}
    /\ DOMAIN output_files["Account"] /= {}

(***************************************************************************)
(* Claims about the pass of a QUERY step.                                  *)
(***************************************************************************)
\* the descendent lookups of a step whose targets have extracted records
DescendentLookupsToPass(step) ==
    {f \in descendent_lookups(step.sobjectname, step.field_scope, get_sobject_list(steps)) :
        get_sobject_ids_for_reference(Registries, step.sobjectname, f) /= {}}

\* C28 (as claimed): a QUERY step issues one filtered bulk extraction and
\* then the identifier-set passes of the DESCENDENTS branch: when it comes
\* to resolve its registered dependencies it has asked one bulk query, and
\* one lookup query for every descendent lookup that has identifiers to
\* look for.
C28_FilteredQueryPassesDescendents ==
    (pc.at = "resolve" /\ steps[pc.i].scope = QUERY) =>
        LET step == steps[pc.i]
            asked == QueriesOf(step.sobjectname)
        IN  /\ Len(asked) >= 1
            /\ asked[1] = [sobjectname |-> step.sobjectname, api |-> "bulk",
                           where |-> step.where_clause]
            /\ \A k \in 2..Len(asked) : asked[k].api /= "bulk"
            /\ \A f \in DescendentLookupsToPass(step) :
                  \E k \in 2..Len(asked) :
                      asked[k].api = "query_all" /\ asked[k].where[1] = f

\* C28 (amended): execute() of a QUERY step issues exactly one query, the
\* filtered bulk extraction, and unless that pass raises goes from there to
\* the resolution of the registered dependencies: no identifier-set pass of
\* the DESCENDENTS branch is made.
C28_FilteredQueryThenResolve ==
    [][(pc.at = "execute" /\ steps[pc.i].scope = QUERY) =>
          /\ queries' = Append(queries, [sobjectname |-> steps[pc.i].sobjectname,
                                         api |-> "bulk",
                                         where |-> steps[pc.i].where_clause])
          /\ error' = "none" => pc' = [at |-> "resolve", i |-> pc.i]
          /\ error' /= "none" => pc' = [at |-> "aborted", i |-> pc.i]]_vars

\* a QUERY step about to resolve its dependencies, with a descendent lookup
\* whose target has extracted records, having asked its bulk query only
C28_Witness ==
    /\ pc.at = "resolve"
    /\ steps[pc.i].scope = QUERY
    /\ DescendentLookupsToPass(steps[pc.i]) /= {}
    /\ QueriesOf(steps[pc.i].sobjectname)
          = <<[sobjectname |-> steps[pc.i].sobjectname, api |-> "bulk",
               where |-> steps[pc.i].where_clause]>>

(***************************************************************************)
(* Claims about the dependencies a record registers when it is taken in.   *)
(***************************************************************************)
\* the dependent lookups of a step that have several targets
PolymorphicDependentLookups(step) ==
    {f \in dependent_lookups(step.sobjectname, step.field_scope, get_sobject_list(steps)) :
        Len(get_field_map(step.sobjectname)[f].referenceTo) > 1}

\* the sObjects a step may register dependencies on through a polymorphic
\* value: the steps of the operation that are not before it
NotEarlier(sobjectname, i) ==
    /\ InList(get_sobject_list(steps), sobjectname)
    /\ Index(get_sobject_list(steps), sobjectname) >= i

\* C29: a non-null value of a polymorphic dependent lookup is registered as
\* required on the sObject its key prefix resolves to if and only if that
\* sObject is a step of the operation and is not before the current step.
\* In every step of execute(), each record the current step has taken in
\* has its values that resolve to such an sObject in the required set of
\* that sObject; a value that resolves to an earlier step or to an sObject
\* outside the operation is added to no required set.
C29_PolymorphicDependencyRegistered ==
    [][pc.at \in {"execute", "resolve", "children", "parents"} =>
        LET step == steps[pc.i]
            s == step.sobjectname
        IN  \A id \in extracted_ids'[s] \ extracted_ids[s] :
              \A f \in PolymorphicDependentLookups(step) :
                 LET value == store[s][id][f]
                     target == get_sobject_name_for_id(value)
                 IN  value /= None =>
                       IF NotEarlier(target, pc.i)
                       THEN SalesforceId(value) \in required_ids'[target]
                       ELSE \A t \in DOMAIN required_ids :
                              SalesforceId(value) \in required_ids'[t]
                                  => SalesforceId(value) \in required_ids[t]]_vars

\* a Task has been taken in whose WhatId names an Account, a step before
\* Task, that is not extracted: the identifier is required of no sObject
C29_Witness ==
    /\ get_sobject_list(steps) = <<"Account", "Task", "Opportunity">>
    /\ extracted_ids["Task"] /= {}
    /\ \E id \in extracted_ids["Task"] :
          /\ store["Task"][id].WhatId /= None
          /\ get_sobject_name_for_id(store["Task"][id].WhatId) = "Account"
          /\ SalesforceId(store["Task"][id].WhatId) \notin extracted_ids["Account"]
          /\ \A t \in DOMAIN required_ids :
                SalesforceId(store["Task"][id].WhatId) \notin required_ids[t]

\* the self-lookups of a step that are traced
TracedSelfLookups(step) ==
    {l \in self_lookups(step.sobjectname, step.field_scope, get_sobject_list(steps)) :
        (IF l \in DOMAIN step.lookup_behaviors
         THEN step.lookup_behaviors[l]
         ELSE step.self_lookup_behavior) /= TRACE_NONE}

\* C30: a non-null self-lookup value of a record taken in is added to the
\* required identifiers of the sObject unless the behavior in force for the
\* field (the one set for the field, else the step's) is TRACE_NONE or the
\* identifier is already extracted.  In every step of execute(): the value
\* of a traced self-lookup of each record taken in is required, or extracted
\* by the end of the pass; when no self-lookup is traced the required set
\* gains nothing; and no identifier is both required and extracted.
C30_SelfLookupRegistered ==
    [][pc.at \in {"execute", "resolve", "children", "parents"} =>
        LET step == steps[pc.i]
            s == step.sobjectname
        IN  /\ \A id \in extracted_ids'[s] \ extracted_ids[s] :
                 \A l \in TracedSelfLookups(step) :
                    store[s][id][l] /= None =>
                        SalesforceId(store[s][id][l])
                            \in required_ids'[s] \cup extracted_ids'[s]
            /\ TracedSelfLookups(step) = {} => required_ids'[s] \subseteq required_ids[s]
            /\ required_ids'[s] \cap extracted_ids'[s] = {}]_vars

\* a step that does not trace self-lookups, except ParentId by the behavior
\* set for it, has taken in an account whose parent is now required
C30_Witness ==
    /\ steps[1].self_lookup_behavior = TRACE_NONE
    /\ "ParentId" \in DOMAIN steps[1].lookup_behaviors
    /\ steps[1].lookup_behaviors["ParentId"] = TRACE_ALL
    /\ \E id \in extracted_ids["Account"] :
          /\ store["Account"][id].ParentId /= None
          /\ SalesforceId(store["Account"][id].ParentId) \in required_ids["Account"]
          /\ SalesforceId(store["Account"][id].ParentId) \notin extracted_ids["Account"]

(***************************************************************************)
(* Claims about the input file of a load step.                             *)
(***************************************************************************)
\* the calls of self.context.get_input_file(sobjectname): LoadStep.execute
\* makes one (line 276) and LoadStep.execute_dependent_updates one (line 295)
get_input_file_calls(sobjectname) ==
    LET AsksForIt(c) == /\ c[1] \in {"execute", "execute_dependent_updates"}
                        /\ c[2] = sobjectname
    IN  Len(SelectSeq(calls, AsksForIt))

\* C31: a load step consumes its input file in a single pass, and the
\* dependent updates work without a second one: once the dependent updates
\* of a step have been called, the step has asked for its input file once,
\* no exception has left the call, and the update batch of the step has
\* been sent.
C31_InputFileReadOnce ==
    \A c \in 1..Len(calls) :
        calls[c][1] = "execute_dependent_updates" =>
            /\ get_input_file_calls(calls[c][2]) = 1
            /\ error = "none"
            /\ Len(bulk_updates[calls[c][2]]) = 1

\* the records of a step's input file with a self- or dependent-lookup that
\* is not blank
WithDeferredValue(step) ==
    {j \in DOMAIN input_files[step.sobjectname] :
        \E f \in DeferredLookups(step) :
            input_files[step.sobjectname][j][f] \notin {None, Blank}}

\* C32: a record is carried into the update of phase 2 if and only if one
\* of its self- or dependent-lookups is not blank; a record whose lookups
\* are all blank is never submitted for update and causes no error.  Once
\* the dependent updates of a step have been called, the batch sent to
\* update() holds one record for each input record with such a value and no
\* other, and a step without such a record has raised nothing.
C32_UpdateCarriesRecordsWithLookups ==
    \A c \in 1..Len(calls) :
        calls[c][1] = "execute_dependent_updates" =>
            LET s == calls[c][2]
                carried == WithDeferredValue(StepOf(s))
            IN  /\ carried /= {} =>
                      /\ Len(bulk_updates[s]) = 1
                      /\ Len(bulk_updates[s][1]) = Cardinality(carried)
                /\ carried = {} =>
                      /\ \A b \in DOMAIN bulk_updates[s] : bulk_updates[s][b] = <<>>
                      /\ (c = Len(calls) => error = "none")

(***************************************************************************)
(* Claims about the registries of an extraction.                           *)
(***************************************************************************)
\* C33: in every state of an extraction, no identifier of an sObject is
\* both in its required set and in its extracted set.
C33_RequiredAndExtractedDisjoint ==
    \A s \in DOMAIN required_ids : required_ids[s] \cap extracted_ids[s] = {}

\* an sObject with extracted records and with identifiers still required,
\* one of them named by a self-lookup of an extracted record
C33_Witness ==
    /\ extracted_ids["Account"] /= {}
    /\ \E id \in extracted_ids["Account"] :
          /\ store["Account"][id].ParentId /= None
          /\ SalesforceId(store["Account"][id].ParentId) \in required_ids["Account"]

\* C34: when execute() returns without a fatal error, the required set of
\* every sObject is empty, whatever the scopes of the steps and the
\* self-lookup behaviors of the steps and of their fields.
C34_NothingRequiredAtTheEnd ==
    (pc.at = "done" /\ error = "none") =>
        \A s \in DOMAIN required_ids : required_ids[s] = {}

\* C35: while the step of an sObject T executes, identifiers are added to
\* the extracted set of T only, and to the required sets of T and of the
\* sObjects of later steps only: the extracted set of every other sObject is
\* unchanged, the required set of an sObject that is an earlier step or no
\* step gains nothing, and no extracted set loses an identifier.
C35_StepTouchesItsOwnAndLaterSets ==
    [][pc.at \in {"execute", "resolve", "children", "parents"} =>
        \A s \in DOMAIN extracted_ids :
            /\ extracted_ids[s] \subseteq extracted_ids'[s]
            /\ s /= steps[pc.i].sobjectname => extracted_ids'[s] = extracted_ids[s]
            /\ ~NotEarlier(s, pc.i) => required_ids'[s] \subseteq required_ids[s]]_vars

\* the second of three steps has taken in a record and registered an
\* identifier on the third, the first having extracted records
C35_Witness ==
    /\ get_sobject_list(steps) = <<"Account", "Task", "Opportunity">>
    /\ pc.i = 2
    /\ extracted_ids["Account"] /= {}
    /\ extracted_ids["Task"] /= {}
    /\ required_ids["Opportunity"] /= {}
    /\ extracted_ids["Opportunity"] = {}

(***************************************************************************)
(* Claims about the descendent lookups of a record that is taken in.       *)
(***************************************************************************)
\* C36: a record whose descendent-lookup field is null is not treated as an
\* outside reference.  For a record of the store with a null descendent
\* lookup (and no other descendent lookup that refers outside), the intake
\* by the step that is executing raises nothing under ERROR, and under
\* DROP_FIELD stores the record as the store holds it.
C36_NullDescendentLookupIsNoOutsideReference ==
    pc.at \in {"execute", "resolve", "children", "parents"} =>
        LET step == steps[pc.i]
            s == step.sobjectname
            descendents == descendent_lookups(s, step.field_scope, get_sobject_list(steps))
        IN  \A f \in descendents : \A id \in DOMAIN store[s] :
                LET record == store[s][id]
                    behavior == get_outside_lookup_behavior_for_field(step, f)
                    after == store_result(Registries, step, record)
                IN  (/\ record[f] = None
                     /\ \A g \in descendents \ {f} :
                           record[g] /= None /\ ~OutsideReference(s, g, id)) =>
                        /\ behavior = ERROR => after.raised = "none"
                        /\ behavior = DROP_FIELD =>
                              /\ after.raised = "none"
                              /\ id \in after.extracted_ids[s]
                              /\ id \notin extracted_ids[s] =>
                                    after.output_files[s] = WriteRow(output_files[s], record)

\* C37: for a polymorphic field that is both a descendent and a dependent
\* lookup, a value whose sObject is a later step is registered as a
\* dependency and nothing else: the intake by the executing step requires
\* the identifier of the later sObject, raises nothing under ERROR and
\* writes the record with the field under DROP_FIELD.
C37_LaterTargetIsOnlyADependency ==
    pc.at \in {"execute", "resolve", "children", "parents"} =>
        LET step == steps[pc.i]
            s == step.sobjectname
            sobjects == get_sobject_list(steps)
        IN  \A f \in PolymorphicDependentLookups(step)
                        \cap descendent_lookups(s, step.field_scope, sobjects) :
              \A id \in DOMAIN store[s] :
                LET record == store[s][id]
                    behavior == get_outside_lookup_behavior_for_field(step, f)
                    after == store_result(Registries, step, record)
                IN  (/\ record[f] /= None
                     /\ InList(sobjects, get_sobject_name_for_id(record[f]))
                     /\ Index(sobjects, get_sobject_name_for_id(record[f])) > pc.i) =>
                        /\ behavior \in {ERROR, DROP_FIELD} =>
                              /\ after.raised = "none"
                              /\ SalesforceId(record[f])
                                    \in after.required_ids[get_sobject_name_for_id(record[f])]
                              /\ id \in after.extracted_ids[s]
                        /\ (behavior = DROP_FIELD /\ id \notin extracted_ids[s]) =>
                              after.output_files[s] = WriteRow(output_files[s], record)

(***************************************************************************)
(* Claims about a self-lookup that is not traced.                          *)
(***************************************************************************)
\* C38: if the behavior in force for a self-lookup (the one set for the
\* field, else the step's) is TRACE_NONE, the step makes no children pass on
\* that field and extracts no record because of it: no query asks for the
\* records whose field is among a list of identifiers, and a step of
\* selected records with no other self-lookup traced extracts selected
\* records only.
C38_UntracedSelfLookupIsNotFollowed ==
    \A j \in 1..Len(steps) :
        LET step == steps[j]
            s == step.sobjectname
            selfs == self_lookups(s, step.field_scope, get_sobject_list(steps))
        IN  /\ \A l \in selfs \ TracedSelfLookups(step) :
                  \A q \in 1..Len(queries) :
                      ~(/\ queries[q].sobjectname = s
                        /\ queries[q].api = "query_all"
                        /\ queries[q].where[1] = l)
            /\ (TracedSelfLookups(step) = {} /\ step.scope = SELECTED_RECORDS) =>
                  extracted_ids[s] \subseteq step.ids

====
